---- MODULE Spec2Model ----
(***************************************************************************)
(* A model of wled_browser.py: the device registry (scan, merge, sort),    *)
(* the selector grammar, the bulk command loop with per-device retry, and  *)
(* the "retry last failures" replay.                                       *)
(*                                                                         *)
(* Text is modelled as a sequence of one-character strings, so that        *)
(* lower(), isdigit(), split(',') and int() are computed, not assumed.     *)
(* A command line is the sequence of its whitespace-separated words        *)
(* (what str.split() yields); Python's None is NoneVal and a present       *)
(* value v is Some(v).                                                     *)
(***************************************************************************)
EXTENDS Integers, Sequences, FiniteSets, TLC

\* ------------------------------------------------------------------ bounds

\* Largest number of records one discovery scan returns.
MaxScan == 2

\* Largest retry count the user sets with 'retries <n>'.
MaxRetries == 1

\* Largest number of devices in the registries the parsers are called on.
MaxDevices == 3

\* ------------------------------------------------------------- Python values

NoneVal == <<>>

Some(v) == <<v>>

IsNone(o) == o = <<>>

Val(o) == o[1]

\* ------------------------------------------------------------------ text

\* The characters in use, in code-point order. The last one stands for the
\* single character U+00E9, a lower-case letter outside ASCII.
Alphabet ==
    << " ", ",", "-",
       "0", "1", "2", "3", "4", "5", "6", "7", "8", "9",
       "A", "B", "C", "D", "E", "F", "G", "H", "I", "J", "K", "L", "M",
       "N", "O", "P", "Q", "R", "S", "T", "U", "V", "W", "X", "Y", "Z",
       "_",
       "a", "b", "c", "d", "e", "f", "g", "h", "i", "j", "k", "l", "m",
       "n", "o", "p", "q", "r", "s", "t", "u", "v", "w", "x", "y", "z",
       "U+00E9" >>

CharSet == {Alphabet[i] : i \in 1..Len(Alphabet)}

\* Position of a character in code-point order.
Ord == [c \in CharSet |-> CHOOSE i \in 1..Len(Alphabet) : Alphabet[i] = c]

DigitChars == {"0", "1", "2", "3", "4", "5", "6", "7", "8", "9"}

UpperChars == {Alphabet[i] : i \in 14..39}

LowerChars == {Alphabet[i] : i \in 41..66}

\* Characters outside ASCII that str.isalnum() takes for letters.
OtherLetters == {"U+00E9"}

\* str.lower() on one character: 'A'..'Z' map to 'a'..'z'.
LowerChar(c) == IF c \in UpperChars THEN Alphabet[Ord[c] + 27] ELSE c

\* str.lower()
Lower(s) == [i \in 1..Len(s) |-> LowerChar(s[i])]

\* Python's str comparison a < b: lexicographic by code point.
StrLess(a, b) ==
    \E k \in 1..(Len(b)) :
        /\ \A j \in 1..(k - 1) : j <= Len(a) /\ a[j] = b[j]
        /\ \/ k = Len(a) + 1
           \/ k <= Len(a) /\ Ord[a[k]] < Ord[b[k]]

\* str.isdigit(): non-empty and every character a digit.
IsDigit(s) == Len(s) > 0 /\ \A i \in 1..Len(s) : s[i] \in DigitChars

\* str.isalnum(): non-empty and every character a letter or a digit, of any
\* script.
IsAlnum(s) ==
    /\ Len(s) > 0
    /\ \A i \in 1..Len(s) :
          s[i] \in DigitChars \cup UpperChars \cup LowerChars \cup OtherLetters

\* s.replace(c, '')
RECURSIVE Remove(_, _)
Remove(s, c) ==
    IF s = <<>> THEN <<>>
    ELSE IF Head(s) = c THEN Remove(Tail(s), c)
    ELSE <<Head(s)>> \o Remove(Tail(s), c)

\* int(s) for a string of digits.
RECURSIVE ToInt(_)
ToInt(s) ==
    IF s = <<>> THEN 0
    ELSE 10 * ToInt(SubSeq(s, 1, Len(s) - 1)) + (Ord[s[Len(s)]] - Ord["0"])

\* str(n) for n >= 0.
RECURSIVE ToStr(_)
ToStr(n) ==
    IF n < 10 THEN <<Alphabet[Ord["0"] + n]>>
    ELSE ToStr(n \div 10) \o <<Alphabet[Ord["0"] + (n % 10)]>>

\* s.split(c): the pieces between occurrences of c (always at least one piece).
RECURSIVE Split(_, _)
Split(s, c) ==
    IF \A i \in 1..Len(s) : s[i] # c THEN <<s>>
    ELSE LET k == CHOOSE i \in 1..Len(s) :
                      s[i] = c /\ \A j \in 1..(i - 1) : s[j] # c
         IN  <<SubSeq(s, 1, k - 1)>> \o Split(SubSeq(s, k + 1, Len(s)), c)

\* s.strip() for the one whitespace character in use.
RECURSIVE Strip(_)
Strip(s) ==
    IF s = <<>> THEN s
    ELSE IF Head(s) = " " THEN Strip(Tail(s))
    ELSE IF s[Len(s)] = " " THEN Strip(SubSeq(s, 1, Len(s) - 1))
    ELSE s

\* sep.join(words)
RECURSIVE Join(_, _)
Join(words, sep) ==
    IF words = <<>> THEN <<>>
    ELSE IF Len(words) = 1 THEN words[1]
    ELSE words[1] \o sep \o Join(Tail(words), sep)

\* The indices of a sequence as a set, and its elements as a set.
Range(s) == {s[i] : i \in 1..Len(s)}

\* sorted(set(xs)) for a list of integers.
RECURSIVE SortedSet(_)
SortedSet(S) ==
    IF S = {} THEN <<>>
    ELSE LET m == CHOOSE x \in S : \A y \in S : x <= y
         IN  <<m>> \o SortedSet(S \ {m})

\* ------------------------------------------------------------------ registry

DefaultGroup == <<"_", "d", "e", "f", "a", "u", "l", "t">>

\* WLEDListener.add_service: the dict stored for one discovered service.
NewService(rec) ==
    [ host_ip       |-> rec.host_ip,
      port          |-> rec.port,
      friendly_name |-> rec.friendly_name,
      group         |-> DefaultGroup,
      power_state   |-> NoneVal,
      sync_enabled  |-> NoneVal,
      sync_send     |-> NoneVal,
      sync_recv     |-> NoneVal ]

\* The sort key of a service is (group != '_default', group.lower(),
\* friendly_name.lower()); KeyLess is Python's tuple comparison key(s) < key(t).
KeyLess(s, t) ==
    LET s1 == s.group # DefaultGroup
        t1 == t.group # DefaultGroup
        s2 == Lower(s.group)
        t2 == Lower(t.group)
        s3 == Lower(s.friendly_name)
        t3 == Lower(t.friendly_name)
    IN  \/ ~s1 /\ t1
        \/ s1 = t1 /\ StrLess(s2, t2)
        \/ s1 = t1 /\ s2 = t2 /\ StrLess(s3, t3)

\* Insert x behind every element whose key is not greater (stable).
RECURSIVE InsertSorted(_, _)
InsertSorted(list, x) ==
    IF list = <<>> THEN <<x>>
    ELSE IF KeyLess(x, Head(list)) THEN <<x>> \o list
    ELSE <<Head(list)>> \o InsertSorted(Tail(list), x)

\* list.sort(key=...): a stable sort by the key.
RECURSIVE SortServices(_)
SortServices(list) ==
    IF list = <<>> THEN <<>>
    ELSE InsertSorted(SortServices(SubSeq(list, 1, Len(list) - 1)), list[Len(list)])

\* Position of the entry with this address in an insertion-ordered dict
\* keyed by host_ip (0: absent).
IndexOfIp(d, ip) ==
    IF \E i \in 1..Len(d) : d[i].host_ip = ip
    THEN CHOOSE i \in 1..Len(d) : d[i].host_ip = ip
    ELSE 0

\* {s['host_ip']: s for s in service_db}: a key keeps the position of its
\* first occurrence and the value of its last.
RECURSIVE ExistingByIp(_)
ExistingByIp(service_db) ==
    IF service_db = <<>> THEN <<>>
    ELSE LET d == ExistingByIp(SubSeq(service_db, 1, Len(service_db) - 1))
             s == service_db[Len(service_db)]
             k == IndexOfIp(d, s.host_ip)
         IN  IF k = 0 THEN Append(d, s) ELSE [d EXCEPT ![k] = s]

\* One iteration of the loop over listener.services.values().
MergeOne(d, new_service) ==
    LET k == IndexOfIp(d, new_service.host_ip)
    IN  IF k # 0
        THEN [d EXCEPT ![k].port = new_service.port,
                       ![k].friendly_name = new_service.friendly_name]
        ELSE Append(d, new_service)

RECURSIVE MergeAll(_, _)
MergeAll(d, found) ==
    IF found = <<>> THEN d
    ELSE MergeAll(MergeOne(d, Head(found)), Tail(found))

\* scan_wled_devices(service_db=...), given the records the listener collected.
ScanWledDevices(service_db, found) ==
    LET fresh == [i \in 1..Len(found) |-> NewService(found[i])]
    IN  IF service_db # <<>>
        THEN SortServices(MergeAll(ExistingByIp(service_db), fresh))
        ELSE SortServices(fresh)

\* ------------------------------------------------------------------ int()

\* Whether int(s) accepts s without a sign: digits, single underscores allowed
\* between digits.
DigitsOk(t) ==
    /\ t # <<>>
    /\ t[1] \in DigitChars
    /\ t[Len(t)] \in DigitChars
    /\ \A i \in 1..Len(t) : t[i] \in DigitChars \cup {"_"}
    /\ \A i \in 1..(Len(t) - 1) : ~(t[i] = "_" /\ t[i + 1] = "_")

\* int(s): Some(value), or NoneVal where Python raises ValueError.
PyInt(s) ==
    LET t == Strip(s)
    IN  IF t # <<>> /\ t[1] = "-"
        THEN IF DigitsOk(Tail(t)) THEN Some(0 - ToInt(Remove(Tail(t), "_"))) ELSE NoneVal
        ELSE IF DigitsOk(t) THEN Some(ToInt(Remove(t, "_"))) ELSE NoneVal

\* ------------------------------------------------------------ parse_range

W_all == <<"a", "l", "l">>

\* A faulty lookup that compares the stored group text as it is.
GroupIndicesExact(services_list, group_name) ==
    {i - 1 : i \in {j \in 1..Len(services_list) :
                       services_list[j].group = group_name}}

\* The indices (0-based) of the services whose group is group_name, ignoring case.
GroupIndices(services_list, group_name) ==
    {i - 1 : i \in {j \in 1..Len(services_list) :
                       Lower(services_list[j].group) = group_name}}

\* One comma-separated part of a range string: Some(set of indices), or NoneVal
\* where parse_range returns None. services is NoneVal or Some(services_list).
ParsePart(raw, max_index, services) ==
    LET part == Strip(raw)
    IN  IF "-" \in Range(part) /\ part[1] \in DigitChars
        THEN LET range_parts == Split(part, "-")
             IN  IF Len(range_parts) # 2 THEN NoneVal
                 ELSE LET start == PyInt(range_parts[1])
                          end   == PyInt(range_parts[2])
                      IN  IF IsNone(start) \/ IsNone(end) THEN NoneVal
                          ELSE IF Val(start) < 0 \/ Val(end) >= max_index
                                  \/ Val(start) > Val(end)
                          THEN NoneVal
                          ELSE Some(Val(start)..Val(end))
        ELSE IF IsDigit(part)
        THEN LET index == ToInt(part)
             IN  IF index < 0 \/ index >= max_index THEN NoneVal ELSE Some({index})
        ELSE IF ~IsNone(services) /\ IsAlnum(Remove(part, "_"))
        THEN LET group_indices == GroupIndices(Val(services), Lower(part))
             IN  IF group_indices = {} THEN NoneVal ELSE Some(group_indices)
        ELSE NoneVal

\* A faulty loop that skips a part it cannot parse instead of giving up.
RECURSIVE ParsePartsPartial(_, _, _)
ParsePartsPartial(parts, max_index, services) ==
    IF parts = <<>> THEN Some({})
    ELSE LET one  == ParsePart(Head(parts), max_index, services)
             rest == ParsePartsPartial(Tail(parts), max_index, services)
         IN  IF IsNone(one) THEN rest
             ELSE Some(Val(one) \cup Val(rest))

RECURSIVE ParseParts(_, _, _)
ParseParts(parts, max_index, services) ==
    IF parts = <<>> THEN Some({})
    ELSE LET one  == ParsePart(Head(parts), max_index, services)
             rest == ParseParts(Tail(parts), max_index, services)
         IN  IF IsNone(one) \/ IsNone(rest) THEN NoneVal
             ELSE Some(Val(one) \cup Val(rest))

\* A faulty parse_range without the 'all' shortcut.
ParseRangeNoAll(range_str, max_index, services) ==
    LET r == ParseParts(Split(range_str, ","), max_index, services)
    IN  IF IsNone(r) THEN NoneVal ELSE Some(SortedSet(Val(r)))

\* parse_range(range_str, max_index, services_list): Some(sorted list of
\* indices) or NoneVal.
ParseRange(range_str, max_index, services) ==
    IF Lower(Strip(range_str)) = W_all
    THEN Some([i \in 1..max_index |-> i - 1])
    ELSE LET r == ParseParts(Split(range_str, ","), max_index, services)
         IN  IF IsNone(r) THEN NoneVal ELSE Some(SortedSet(Val(r)))

\* ------------------------------------------------------ parse_sync_groups

W_none == <<"n", "o", "n", "e">>

RECURSIVE Pow2(_)
Pow2(n) == IF n = 0 THEN 1 ELSE 2 * Pow2(n - 1)

\* A faulty mask update that adds the bit instead of or-ing it.
AddBit(bitmask, k) == bitmask + Pow2(k)

\* bitmask | (1 << k)
SetBit(bitmask, k) ==
    IF (bitmask \div Pow2(k)) % 2 = 1 THEN bitmask ELSE bitmask + Pow2(k)

\* The loop over the comma-separated parts, from bitmask on.
RECURSIVE SyncGroupParts(_, _)
SyncGroupParts(parts, bitmask) ==
    IF parts = <<>> THEN Some(bitmask)
    ELSE LET part == Strip(Head(parts))
         IN  IF part = <<>> THEN SyncGroupParts(Tail(parts), bitmask)
             ELSE LET group_num == PyInt(part)
                  IN  IF IsNone(group_num) THEN NoneVal
                      ELSE IF Val(group_num) < 1 \/ Val(group_num) > 8 THEN NoneVal
                      ELSE SyncGroupParts(Tail(parts), SetBit(bitmask, Val(group_num) - 1))

\* parse_sync_groups(groups_str): Some(bitmask) or NoneVal.
ParseSyncGroups(groups_str) ==
    IF groups_str = <<>> \/ Strip(groups_str) = <<>> \/ Lower(groups_str) = W_none
    THEN Some(0)
    ELSE SyncGroupParts(Split(groups_str, ","), 0)

\* ------------------------------------------------------------ command words

W_on == <<"o", "n">>

W_off == <<"o", "f", "f">>

W_reboot == <<"r", "e", "b", "o", "o", "t">>

W_power == <<"p", "o", "w", "e", "r">>

W_state == <<"s", "t", "a", "t", "e">>

W_info == <<"i", "n", "f", "o">>

W_sync == <<"s", "y", "n", "c">>

W_syncgroups == <<"s", "y", "n", "c", "g", "r", "o", "u", "p", "s">>

W_send == <<"s", "e", "n", "d">>

W_recv == <<"r", "e", "c", "v">>

W_group == <<"g", "r", "o", "u", "p">>

W_scan == <<"s", "c", "a", "n">>

W_list == <<"l", "i", "s", "t">>

W_retries == <<"r", "e", "t", "r", "i", "e", "s">>

W_retry == <<"r", "e", "t", "r", "y">>

W_quit == <<"q", "u", "i", "t">>

\* ------------------------------------------------------------------ state

VARIABLES
    services_list,        \* command_loop's services_list: the registry
    retry_count,          \* global retry_count
    last_command,         \* global last_command: NoneVal or Some(command)
    last_failed_indices,  \* global last_failed_indices
    pc,                   \* where command_loop is: "start", "prompt" (in input()),
                          \* "call" (in an HTTP call of a bulk loop), "finished"
                          \* (a bulk handler has ended), "exited"
    run,                  \* the bulk handler in progress: its loop variables
    calls                 \* the HTTP calls that handler has made, in order

vars == <<services_list, retry_count, last_command, last_failed_indices, pc, run, calls>>

\* No bulk handler is in progress.
IdleRun ==
    [ handler |-> <<>>, op |-> "none", arg |-> <<>>, indices |-> <<>>,
      pos |-> 1, attempt |-> 0, retrying |-> FALSE, prev_failed |-> <<>> ]

\* command.split(maxsplit=1): parts[0].lower() and parts[1].
Cmd(command) == IF command = <<>> THEN <<>> ELSE Lower(command[1])

Rest(command) == Join(Tail(command), <<" ">>)

\* services_list[idx] for a 0-based idx.
Service(idx) == services_list[idx + 1]

\* ------------------------------------------------------------ transport

\* What one HTTP call can come to: ok is (status 200 and no exception); for a
\* GET, truthy is whether the JSON document is non-empty and on is its 'on'
\* entry (NoneVal when absent).
Failure == [ok |-> FALSE, truthy |-> FALSE, on |-> NoneVal]

Done200 == [ok |-> TRUE, truthy |-> TRUE, on |-> NoneVal]

StatusDocs ==
    { [ok |-> TRUE, truthy |-> FALSE, on |-> NoneVal],
      [ok |-> TRUE, truthy |-> TRUE, on |-> NoneVal],
      [ok |-> TRUE, truthy |-> TRUE, on |-> Some(TRUE)],
      [ok |-> TRUE, truthy |-> TRUE, on |-> Some(FALSE)] }

Responses(op) ==
    IF op = "get_status" THEN {Failure} \cup StatusDocs ELSE {Failure, Done200}

\* A faulty body that writes its cache whatever the response.
ApplyOpUnchecked(service, op, arg, resp) ==
    IF op = "set_power" THEN [service EXCEPT !.power_state = Some(arg[1])]
    ELSE IF op = "set_sync_enabled" THEN [service EXCEPT !.sync_enabled = Some(arg[1])]
    ELSE IF op = "set_sync_groups"
    THEN [service EXCEPT !.sync_send = Some(arg[1]), !.sync_recv = Some(arg[2])]
    ELSE service

\* A faulty body whose set_power flips the cached state of a device that
\* already has the requested one.
ApplyOpToggle(service, op, arg, resp) ==
    IF ~resp.ok THEN service
    ELSE IF op = "set_power"
    THEN [service EXCEPT !.power_state =
              IF service.power_state = Some(arg[1]) THEN Some(~arg[1]) ELSE Some(arg[1])]
    ELSE IF op = "set_sync_enabled" THEN [service EXCEPT !.sync_enabled = Some(arg[1])]
    ELSE IF op = "set_sync_groups"
    THEN [service EXCEPT !.sync_send = Some(arg[1]), !.sync_recv = Some(arg[2])]
    ELSE service

\* The body of set_power / set_sync_enabled / set_sync_groups / reboot_device /
\* get_status / get_info on one service: the cache it writes on a 200.
ApplyOp(service, op, arg, resp) ==
    IF ~resp.ok THEN service
    ELSE IF op = "set_power" THEN [service EXCEPT !.power_state = Some(arg[1])]
    ELSE IF op = "set_sync_enabled" THEN [service EXCEPT !.sync_enabled = Some(arg[1])]
    ELSE IF op = "set_sync_groups"
    THEN [service EXCEPT !.sync_send = Some(arg[1]), !.sync_recv = Some(arg[2])]
    ELSE service

\* A faulty wrapper that does not return on success but exhausts its attempts.
WrapperIgnoresSuccess(attempt, resp) == ~(attempt < (retry_count + 1) - 1)

\* retry_request.wrapper: whether the wrapper returns after the call numbered
\* attempt (from 0) came to resp, rather than sleeping and calling again.
WrapperReturns(attempt, resp) == resp.ok \/ ~(attempt < (retry_count + 1) - 1)

\* A faulty loop body in which 'state' stores the reported power state as well.
HandlerUpdateAnyQuery(service, handler, resp) ==
    IF handler \in {W_power, W_state} /\ resp.ok /\ resp.truthy
    THEN [service EXCEPT !.power_state = resp.on]
    ELSE service

\* What the loop body of a handler does with the wrapper's result (success,
\* status): 'power' stores status.get('on') when success and status.
HandlerUpdate(service, handler, resp) ==
    IF handler = W_power /\ resp.ok /\ resp.truthy
    THEN [service EXCEPT !.power_state = resp.on]
    ELSE service

\* A faulty loop body that never records a failure.
HandlerNeverFails(resp) == FALSE

\* Whether the loop body appends idx to last_failed_indices.
HandlerFails(resp) == ~resp.ok

\* The 'If no failures, clear retry state' tail of a handler; the handlers of
\* the retry branch have no such tail.
AfterLoop(retrying, failed, command) ==
    IF ~retrying /\ failed = <<>> THEN NoneVal ELSE command

\* A handler passes validation and enters its loop over indices.
StartBulk(command, op, arg, indices, retrying) ==
    /\ last_failed_indices' = <<>>
    /\ calls' = <<>>
    /\ run' = [ handler |-> Cmd(command), op |-> op, arg |-> arg, indices |-> indices,
                pos |-> 1, attempt |-> 0, retrying |-> retrying,
                prev_failed |-> last_failed_indices ]
    /\ IF indices = <<>>
       THEN /\ pc' = "finished"
            /\ last_command' = AfterLoop(retrying, <<>>, Some(command))
       ELSE /\ pc' = "call"
            /\ last_command' = Some(command)
    /\ UNCHANGED <<services_list, retry_count>>

\* One HTTP call of the loop in progress, and everything the code does until
\* the next call or the next prompt.
TransportCall(resp) ==
    /\ pc = "call"
    /\ LET idx      == run.indices[run.pos]
           returns  == WrapperReturns(run.attempt, resp)
           applied  == ApplyOp(Service(idx), run.op, run.arg, resp)
           updated  == IF returns THEN HandlerUpdate(applied, run.handler, resp)
                       ELSE applied
           failed   == IF returns /\ HandlerFails(resp)
                       THEN Append(last_failed_indices, idx)
                       ELSE last_failed_indices
           last     == returns /\ run.pos = Len(run.indices)
       IN  /\ services_list' = [services_list EXCEPT ![idx + 1] = updated]
           /\ calls' = Append(calls, [idx |-> idx, op |-> run.op, arg |-> run.arg,
                                      ok |-> resp.ok])
           /\ last_failed_indices' = failed
           /\ run' = IF returns
                     THEN [run EXCEPT !.pos = run.pos + 1, !.attempt = 0]
                     ELSE [run EXCEPT !.attempt = run.attempt + 1]
           /\ pc' = IF last THEN "finished" ELSE "call"
           /\ last_command' = IF last THEN AfterLoop(run.retrying, failed, last_command)
                              ELSE last_command
           /\ UNCHANGED retry_count

\* The end of a bulk handler's iteration of the command loop: the list is
\* shown again and control returns to input().
LoopBack ==
    /\ pc = "finished"
    /\ pc' = "prompt"
    /\ run' = IdleRun
    /\ calls' = <<>>
    /\ UNCHANGED <<services_list, retry_count, last_command, last_failed_indices>>

\* A faulty 'continue' path that forgets the stored command and failures.
RejectedClearing ==
    /\ last_command' = <<>>
    /\ last_failed_indices' = <<>>
    /\ UNCHANGED <<services_list, retry_count, pc, run, calls>>

\* A command that ends without touching anything ('continue' after a message).
Rejected == UNCHANGED vars

\* A faulty ending that keeps the retry state.
KeepRetryState == UNCHANGED <<last_command, last_failed_indices>>

\* A command that is not a retryable bulk command ends by clearing the retry state.
ClearRetryState ==
    /\ last_command' = NoneVal
    /\ last_failed_indices' = <<>>

\* ------------------------------------------------------ handlers: validation

\* What a bulk handler has worked out when it enters its loop.
Plan(op, arg, indices) == Some([op |-> op, arg |-> arg, indices |-> indices])

\* A faulty plan that goes on with the parts of the selector it could parse.
PlanForPartial(range_spec, op, arg) ==
    LET r == ParsePartsPartial(Split(range_spec, ","), Len(services_list),
                               Some(services_list))
    IN  Plan(op, arg, SortedSet(Val(r)))

\* parse_range(range_spec, len(services_list), services_list), then the plan.
PlanFor(range_spec, op, arg) ==
    LET indices == ParseRange(range_spec, Len(services_list), Some(services_list))
    IN  IF IsNone(indices) THEN NoneVal ELSE Plan(op, arg, Val(indices))

\* 'on' / 'off': NoneVal where the handler prints a message and continues.
OnOffPlan(command) ==
    IF Len(command) < 2 THEN NoneVal
    ELSE IF services_list = <<>> THEN NoneVal
    ELSE PlanFor(Rest(command), "set_power", <<Cmd(command) = W_on>>)

RebootPlan(command) ==
    IF Len(command) < 2 THEN NoneVal
    ELSE IF services_list = <<>> THEN NoneVal
    ELSE PlanFor(Rest(command), "reboot_device", <<>>)

PowerPlan(command) ==
    IF Len(command) < 2 THEN NoneVal
    ELSE IF services_list = <<>> THEN NoneVal
    ELSE PlanFor(Rest(command), "get_status", <<>>)

StatePlan(command) ==
    IF Len(command) < 2 THEN NoneVal
    ELSE IF services_list = <<>> THEN NoneVal
    ELSE PlanFor(command[2], "get_status", <<>>)

InfoPlan(command) ==
    IF Len(command) < 2 THEN NoneVal
    ELSE IF services_list = <<>> THEN NoneVal
    ELSE PlanFor(command[2], "get_info", <<>>)

SyncPlan(command) ==
    LET sync_parts == Tail(command)
    IN  IF Len(command) < 2 THEN NoneVal
        ELSE IF services_list = <<>> THEN NoneVal
        ELSE IF Len(sync_parts) < 2 THEN NoneVal
        ELSE IF Lower(sync_parts[2]) \notin {W_on, W_off} THEN NoneVal
        ELSE PlanFor(sync_parts[1], "set_sync_enabled", <<Lower(sync_parts[2]) = W_on>>)

\* The two masks of a syncgroups command, once both are valid.
MaskPlan(range_spec, send_groups, recv_groups) ==
    LET send_mask == ParseSyncGroups(send_groups)
        recv_mask == ParseSyncGroups(recv_groups)
    IN  IF IsNone(ParseRange(range_spec, Len(services_list), Some(services_list)))
        THEN NoneVal
        ELSE IF IsNone(send_mask) \/ IsNone(recv_mask) THEN NoneVal
        ELSE PlanFor(range_spec, "set_sync_groups", <<Val(send_mask), Val(recv_mask)>>)

SyncGroupsPlan(command) ==
    LET sync_parts == Tail(command)
    IN  IF Len(command) < 2 THEN NoneVal
        ELSE IF services_list = <<>> THEN NoneVal
        ELSE IF Len(sync_parts) < 4 THEN NoneVal
        ELSE IF Lower(sync_parts[2]) # W_send \/ Lower(sync_parts[4]) # W_recv
        THEN NoneVal
        ELSE MaskPlan(sync_parts[1], sync_parts[3],
                      IF Len(sync_parts) > 4 THEN sync_parts[5] ELSE <<>>)

\* ------------------------------------------------------- handlers: actions

\* The loop of a bulk handler, or nothing when the command is turned down.
Bulk(command, plan, retrying) ==
    IF IsNone(plan) THEN Rejected
    ELSE StartBulk(command, Val(plan).op, Val(plan).arg, Val(plan).indices, retrying)

CmdOnOff(command) ==
    /\ pc = "prompt"
    /\ Cmd(command) \in {W_on, W_off}
    /\ Bulk(command, OnOffPlan(command), FALSE)

CmdReboot(command) ==
    /\ pc = "prompt"
    /\ Cmd(command) = W_reboot
    /\ Bulk(command, RebootPlan(command), FALSE)

CmdPower(command) ==
    /\ pc = "prompt"
    /\ Cmd(command) = W_power
    /\ Bulk(command, PowerPlan(command), FALSE)

CmdState(command) ==
    /\ pc = "prompt"
    /\ Cmd(command) = W_state
    /\ Bulk(command, StatePlan(command), FALSE)

CmdInfo(command) ==
    /\ pc = "prompt"
    /\ Cmd(command) = W_info
    /\ Bulk(command, InfoPlan(command), FALSE)

CmdSync(command) ==
    /\ pc = "prompt"
    /\ Cmd(command) = W_sync
    /\ Bulk(command, SyncPlan(command), FALSE)

CmdSyncGroups(command) ==
    /\ pc = "prompt"
    /\ Cmd(command) = W_syncgroups
    /\ Bulk(command, SyncGroupsPlan(command), FALSE)

\* ------------------------------------------------------------------ group

\* The 'group' handler's two loops, on valid input: assign the group to the
\* targets, and take it from every other device that has it.
GroupLoopsAssignOnly(list, indices, group_id) ==
    [i \in 1..Len(list) |->
        IF (i - 1) \in Range(indices) THEN [list[i] EXCEPT !.group = group_id]
        ELSE list[i]]

GroupLoops(list, indices, group_id) ==
    LET assigned == [i \in 1..Len(list) |->
                        IF (i - 1) \in Range(indices)
                        THEN [list[i] EXCEPT !.group = group_id]
                        ELSE list[i]]
        reset    == [i \in 1..Len(list) |->
                        IF /\ Lower(group_id) # DefaultGroup
                           /\ (i - 1) \notin Range(indices)
                           /\ Lower(assigned[i].group) = Lower(group_id)
                        THEN [assigned[i] EXCEPT !.group = DefaultGroup]
                        ELSE assigned[i]]
    IN  reset

\* A faulty 'group' handler that leaves the list unsorted.
GroupAssignUnsorted(list, indices, group_id) == GroupLoops(list, indices, group_id)

\* The 'group' handler's two loops and its sort.
GroupAssign(list, indices, group_id) ==
    SortServices(GroupLoops(list, indices, group_id))

\* 'group <range> <groupid>': Some(<<indices, group_id>>), or NoneVal where the
\* handler prints a message and continues.
GroupPlan(command) ==
    LET group_id == Strip(Join(SubSeq(command, 3, Len(command)), <<" ">>))
        indices  == ParseRange(command[2], Len(services_list), NoneVal)
    IN  IF Len(command) < 2 THEN NoneVal
        ELSE IF services_list = <<>> THEN NoneVal
        ELSE IF Len(command) < 3 THEN NoneVal
        ELSE IF ~IsAlnum(Remove(group_id, "_")) THEN NoneVal
        ELSE IF IsNone(indices) THEN NoneVal
        ELSE Some(<<Val(indices), group_id>>)

CmdGroup(command) ==
    /\ pc = "prompt"
    /\ Cmd(command) = W_group
    /\ LET plan == GroupPlan(command)
       IN  IF IsNone(plan) THEN Rejected
           ELSE /\ services_list' = GroupAssign(services_list, Val(plan)[1], Val(plan)[2])
                /\ ClearRetryState
                /\ UNCHANGED <<retry_count, pc, run, calls>>

\* ------------------------------------------------------------------- scan

\* The command loop's first statement: scan_wled_devices().
InitialScan(found) ==
    /\ pc = "start"
    /\ services_list' = ScanWledDevices(<<>>, found)
    /\ pc' = "prompt"
    /\ UNCHANGED <<retry_count, last_command, last_failed_indices, run, calls>>

\* 'scan [seconds]': a scan time below 1 is turned down, one that is no number
\* falls back to the default.
ScanAccepted(command) ==
    \/ Len(command) < 2
    \/ IsNone(PyInt(Rest(command)))
    \/ Val(PyInt(Rest(command))) >= 1

CmdScan(command, found) ==
    /\ pc = "prompt"
    /\ Cmd(command) = W_scan
    /\ IF ~ScanAccepted(command) THEN Rejected
       ELSE /\ services_list' = ScanWledDevices(services_list, found)
            /\ ClearRetryState
            /\ UNCHANGED <<retry_count, pc, run, calls>>

\* ------------------------------------------------- list, ui, retries, quit

W_ui == <<"u", "i">>

W_help == <<"h", "e", "l", "p">>

W_id == <<"i", "d">>

W_exit == <<"e", "x", "i", "t">>

W_q == <<"q">>

CmdList(command) ==
    /\ pc = "prompt"
    /\ Cmd(command) = W_list
    /\ ClearRetryState
    /\ UNCHANGED <<services_list, retry_count, pc, run, calls>>

\* 'ui <nn>': the index is int(parts[1]), in range.
UiAccepted(command) ==
    /\ Len(command) >= 2
    /\ services_list # <<>>
    /\ ~IsNone(PyInt(Rest(command)))
    /\ Val(PyInt(Rest(command))) >= 0
    /\ Val(PyInt(Rest(command))) < Len(services_list)

CmdUi(command) ==
    /\ pc = "prompt"
    /\ Cmd(command) = W_ui
    /\ IF ~UiAccepted(command) THEN Rejected
       ELSE /\ ClearRetryState
            /\ UNCHANGED <<services_list, retry_count, pc, run, calls>>

\* A faulty 'retries' that takes any number, negative ones included.
RetriesAcceptedAnySign(command) ==
    /\ Len(command) >= 2
    /\ ~IsNone(PyInt(Rest(command)))

\* 'retries <n>': n is int(parts[1]), not negative.
RetriesAccepted(command) ==
    /\ Len(command) >= 2
    /\ ~IsNone(PyInt(Rest(command)))
    /\ ~(Val(PyInt(Rest(command))) < 0)

CmdRetries(command) ==
    /\ pc = "prompt"
    /\ Cmd(command) = W_retries
    /\ IF ~RetriesAccepted(command) THEN Rejected
       ELSE /\ retry_count' = Val(PyInt(Rest(command)))
            /\ ClearRetryState
            /\ UNCHANGED <<services_list, pc, run, calls>>

CmdQuit(command) ==
    /\ pc = "prompt"
    /\ Cmd(command) \in {W_quit, W_exit, W_q}
    /\ pc' = "exited"
    /\ UNCHANGED <<services_list, retry_count, last_command, last_failed_indices, run, calls>>

\* The words the dispatch chain knows.
KnownCmds ==
    { W_help, W_scan, W_list, W_quit, W_exit, W_q, W_on, W_off, W_reboot, W_id,
      W_sync, W_syncgroups, W_power, W_state, W_info, W_group, W_retries, W_retry,
      W_ui }

\* 'help', an empty line and an unknown word print and change nothing.
CmdOther(command) ==
    /\ pc = "prompt"
    /\ \/ command = <<>>
       \/ command # <<>> /\ (Cmd(command) = W_help \/ Cmd(command) \notin KnownCmds)
    /\ Rejected

\* ------------------------------------------------------------------ retry

\* list.index(w) + 1 where w occurs, 0 where 'w in list' is false.
FirstIndex(list, w) ==
    IF \E i \in 1..Len(list) : list[i] = w
    THEN CHOOSE i \in 1..Len(list) : list[i] = w /\ \A j \in 1..(i - 1) : list[j] # w
    ELSE 0

\* ','.join(str(idx) for idx in sorted(last_failed_indices))
IndicesStr(failed) ==
    LET sorted == SortedSet(Range(failed))
    IN  Join([i \in 1..Len(sorted) |-> ToStr(sorted[i])], <<",">>)

\* The syncgroups case of the reconstruction.
ReconstructSyncGroups(sync_parts, indices_str) ==
    LET send_at == FirstIndex(sync_parts, W_send)
        recv_at == FirstIndex(sync_parts, W_recv)
    IN  IF Len(sync_parts) >= 4 /\ send_at - 1 > 0 /\ recv_at > send_at
        THEN Some(<<W_syncgroups, indices_str, W_send, sync_parts[send_at + 1], W_recv>>
                  \o (IF recv_at + 1 <= Len(sync_parts)
                      THEN <<sync_parts[recv_at + 1]>> ELSE <<>>))
        ELSE NoneVal

\* The command 'retry' builds from last_command and the failed indices:
\* Some(new_command), or NoneVal where it cannot be rebuilt.
Reconstruct(orig, failed) ==
    LET indices_str == IndicesStr(failed)
        orig_cmd    == Cmd(orig)
    IN  IF orig_cmd \in {W_on, W_off, W_reboot, W_power}
        THEN Some(<<orig_cmd, indices_str>>)
        ELSE IF orig_cmd = W_sync
        THEN IF Len(Tail(orig)) >= 2
             THEN Some(<<W_sync, indices_str, Tail(orig)[2]>>)
             ELSE NoneVal
        ELSE IF orig_cmd = W_syncgroups
        THEN ReconstructSyncGroups(Tail(orig), indices_str)
        ELSE IF orig_cmd \in {W_state, W_info}
        THEN Some(<<orig_cmd, indices_str>> \o SubSeq(orig, 3, Len(orig)))
        ELSE NoneVal

\* The handlers of the retry branch: the plan, or NoneVal where they continue.
RetryPlan(command) ==
    LET cmd   == Cmd(command)
        parts == Tail(command)
    IN  IF cmd \in {W_on, W_off}
        THEN IF Len(command) < 2 THEN NoneVal
             ELSE PlanFor(Rest(command), "set_power", <<cmd = W_on>>)
        ELSE IF cmd = W_reboot
        THEN IF Len(command) < 2 THEN NoneVal
             ELSE PlanFor(Rest(command), "reboot_device", <<>>)
        ELSE IF cmd = W_sync
        THEN IF Len(parts) < 2 THEN NoneVal
             ELSE IF Lower(parts[2]) \notin {W_on, W_off} THEN NoneVal
             ELSE PlanFor(parts[1], "set_sync_enabled", <<Lower(parts[2]) = W_on>>)
        ELSE IF cmd = W_syncgroups
        THEN IF Len(parts) < 4 THEN NoneVal
             ELSE MaskPlan(parts[1], parts[3], IF Len(parts) > 4 THEN parts[5] ELSE <<>>)
        ELSE IF cmd = W_power
        THEN IF Len(command) < 2 THEN NoneVal
             ELSE PlanFor(Rest(command), "get_status", <<>>)
        ELSE IF cmd = W_state
        THEN PlanFor(parts[1], "get_status", <<>>)
        ELSE IF cmd = W_info
        THEN PlanFor(parts[1], "get_info", <<>>)
        ELSE NoneVal

\* 'retry': Some(new_command) when the three guards pass and the command can
\* be rebuilt.
RetryCommand ==
    IF IsNone(last_command) THEN NoneVal
    ELSE IF last_failed_indices = <<>> THEN NoneVal
    ELSE IF services_list = <<>> THEN NoneVal
    ELSE Reconstruct(Val(last_command), last_failed_indices)

CmdRetry(command) ==
    /\ pc = "prompt"
    /\ Cmd(command) = W_retry
    /\ \E new_command \in {RetryCommand} :
          IF IsNone(new_command) THEN Rejected
          ELSE \E plan \in {RetryPlan(Val(new_command))} :
                  Bulk(Val(new_command), plan, TRUE)

\* ------------------------------------------------------------------ inputs

\* The records a discovery scan can return: two addresses, one of them seen
\* under two names and ports.
ScanPool ==
    { [host_ip |-> 1, port |-> 80, friendly_name |-> <<"b">>],
      [host_ip |-> 2, port |-> 80, friendly_name |-> <<"A">>],
      [host_ip |-> 2, port |-> 81, friendly_name |-> <<"c">>] }

\* listener.services.values(): up to MaxScan records in arrival order, no two
\* with the same mDNS name (the listener's dict is keyed by name).
ScanResults ==
    UNION { { f \in [1..n -> ScanPool] :
                \A i, j \in 1..n : i # j => f[i].friendly_name # f[j].friendly_name }
            : n \in 0..MaxScan }

G_upper_default == <<"_", "D", "E", "F", "A", "U", "L", "T">>

T_0 == <<"0">>

T_1 == <<"1">>

T_13 == <<"1", ",", "3">>

T_2 == <<"2">>

\* The lines typed in the registry sessions: scans, group assignments, and one
\* line per cache field to fill the caches a merge has to keep.
RegistryLines ==
    { <<W_scan>>, <<W_scan, T_0>>,
      <<W_group, T_0, <<"a">>>>, <<W_group, T_0, G_upper_default>>,
      <<W_group, T_0, <<"1", "x">>>>, <<W_group, W_all, DefaultGroup>>,
      <<W_group, T_0, <<"a", "-">>>>, <<W_group, T_0, <<"A">>>>,
      <<W_group, T_0, <<"U+00E9">>>>,
      <<W_on, W_all>>, <<W_on, T_0>>, <<W_sync, W_all, W_on>>,
      <<W_syncgroups, W_all, W_send, T_13, W_recv, T_2>> }

\* ----------------------------------------------------------- specifications

Init ==
    /\ services_list = <<>>
    /\ retry_count = 0
    /\ last_command = NoneVal
    /\ last_failed_indices = <<>>
    /\ pc = "start"
    /\ run = IdleRun
    /\ calls = <<>>

\* Registry sessions: every scan result, group assignments, cache-filling
\* commands whose calls succeed.
NextRegistry ==
    \/ \E found \in ScanResults : InitialScan(found)
    \/ \E command \in RegistryLines, found \in ScanResults : CmdScan(command, found)
    \/ \E command \in RegistryLines : CmdGroup(command)
    \/ \E command \in RegistryLines : CmdOnOff(command)
    \/ \E command \in RegistryLines : CmdSync(command)
    \/ \E command \in RegistryLines : CmdSyncGroups(command)
    \/ TransportCall(Done200)
    \/ LoopBack

SpecRegistry == Init /\ [][NextRegistry]_vars

\* The lines typed in the command sessions: every retryable bulk command, the
\* retry count and 'retry', and commands that are no bulk commands.
T_7 == <<"7">>

T_07 == <<"0", ",", "7">>

G_zz == <<"z", "z">>

\* The bulk lines whose selector has an invalid term: an index out of
\* range, alone and after a valid index, and a group no device carries.
BadSelectorLines ==
    { <<W_on, T_7>>, <<W_on, T_07>>, <<W_off, G_zz>>, <<W_sync, T_07, W_on>>,
      <<W_power, T_07>> }

BulkLines ==
    BadSelectorLines \cup
    { <<W_on, W_all>>, <<W_off, T_1>>,
      <<W_reboot, W_all>>,
      <<W_power, W_all>>,
      <<W_state, T_0, <<"o", "n">>>>,
      <<W_info, W_all>>,
      <<W_sync, T_1, <<"O", "N">>>>,
      <<W_syncgroups, T_0, W_send, T_13, W_recv, T_2>>,
      <<W_syncgroups, T_0, <<"S", "E", "N", "D">>, T_2, <<"R", "E", "C", "V">>>> }

RetriesLines ==
    { <<W_retries, ToStr(n)>> : n \in 0..MaxRetries } \cup { <<W_retries, <<"-", "1">>>> }

OtherLines == { <<W_retry>>, <<W_list>>, <<W_help>>, <<>>, <<W_quit>>, <<W_ui, T_0>> }

\* The first scan of a command session: the records on port 80, each address once.
FirstScans == {found \in ScanResults : \A i \in 1..Len(found) : found[i].port = 80}

Commands == BulkLines \cup RetriesLines \cup OtherLines

\* Command sessions on the registry of the first scan: bulk commands whose
\* calls succeed or fail, retries and retry.
Next ==
    \/ \E found \in FirstScans : InitialScan(found)
    \/ \E command \in Commands : CmdOnOff(command)
    \/ \E command \in Commands : CmdReboot(command)
    \/ \E command \in Commands : CmdPower(command)
    \/ \E command \in Commands : CmdState(command)
    \/ \E command \in Commands : CmdInfo(command)
    \/ \E command \in Commands : CmdSync(command)
    \/ \E command \in Commands : CmdSyncGroups(command)
    \/ \E command \in Commands : CmdRetries(command)
    \/ \E command \in Commands : CmdRetry(command)
    \/ \E command \in Commands : CmdList(command)
    \/ \E command \in Commands : CmdUi(command)
    \/ \E command \in Commands : CmdQuit(command)
    \/ \E command \in Commands : CmdOther(command)
    \/ \E resp \in Responses(run.op) : TransportCall(resp)
    \/ LoopBack

Spec == Init /\ [][Next]_vars

\* ----------------------------------------------------------- identify walk

\* 'id <range>': NoneVal where the handler prints a message and continues.
IdPlan(command) ==
    IF Len(command) < 2 THEN NoneVal
    ELSE IF services_list = <<>> THEN NoneVal
    ELSE PlanFor(Rest(command), "set_power", <<FALSE>>)

\* 'id <range>' enters id_mode, which starts by turning every target off.
\* In the walk run.pos is the position in indices of the device being called
\* or shown, run.arg the power state being sent, and calls the calls made
\* since the last line was read.
CmdId(command) ==
    /\ pc = "prompt"
    /\ Cmd(command) = W_id
    /\ LET plan == IdPlan(command)
       IN  IF IsNone(plan) THEN Rejected
           ELSE /\ run' = [ handler |-> W_id, op |-> "set_power", arg |-> <<FALSE>>,
                            indices |-> Val(plan).indices, pos |-> 1, attempt |-> 0,
                            retrying |-> FALSE, prev_failed |-> <<>> ]
                /\ calls' = <<>>
                /\ IF Val(plan).indices = <<>>
                   THEN pc' = "id_done" /\ ClearRetryState
                   ELSE pc' = "id_off" /\ UNCHANGED <<last_command, last_failed_indices>>
                /\ UNCHANGED <<services_list, retry_count>>

WalkCalling == {"id_off", "id_on", "id_next", "id_prev", "id_exit"}

\* The position after 'next' and after 'prev' among n targets; positions are
\* counted from 1 here, so these are (pos + 1) % n and (pos - 1) % n of the code.
NextPos(pos, n) == (pos % n) + 1

PrevPosNoWrap(pos, n) == IF pos = 1 THEN 1 ELSE pos - 1

PrevPos(pos, n) == ((pos - 2) % n) + 1

\* One HTTP call of a set_power of id_mode, whose result id_mode ignores, and
\* everything the code does until the next call or the next input().
WalkCall(resp) ==
    /\ pc \in WalkCalling
    /\ LET idx     == run.indices[run.pos]
           n       == Len(run.indices)
           returns == WrapperReturns(run.attempt, resp)
           applied == ApplyOp(Service(idx), run.op, run.arg, resp)
       IN  /\ services_list' = [services_list EXCEPT ![idx + 1] = applied]
           /\ calls' = Append(calls, [idx |-> idx, op |-> run.op, arg |-> run.arg,
                                      ok |-> resp.ok])
           /\ IF ~returns
              THEN /\ run' = [run EXCEPT !.attempt = run.attempt + 1]
                   /\ UNCHANGED <<pc, last_command, last_failed_indices>>
              ELSE IF pc = "id_off" /\ run.pos < n
              THEN /\ run' = [run EXCEPT !.pos = run.pos + 1, !.attempt = 0]
                   /\ UNCHANGED <<pc, last_command, last_failed_indices>>
              ELSE IF pc = "id_off"
              THEN /\ run' = [run EXCEPT !.pos = 1, !.attempt = 0, !.arg = <<TRUE>>]
                   /\ pc' = "id_on"
                   /\ UNCHANGED <<last_command, last_failed_indices>>
              ELSE IF pc = "id_on"
              THEN /\ run' = [run EXCEPT !.attempt = 0]
                   /\ pc' = "id_prompt"
                   /\ UNCHANGED <<last_command, last_failed_indices>>
              ELSE IF pc = "id_next"
              THEN /\ run' = [run EXCEPT !.pos = NextPos(run.pos, n), !.attempt = 0,
                                         !.arg = <<TRUE>>]
                   /\ pc' = "id_on"
                   /\ UNCHANGED <<last_command, last_failed_indices>>
              ELSE IF pc = "id_prev"
              THEN /\ run' = [run EXCEPT !.pos = PrevPos(run.pos, n), !.attempt = 0,
                                         !.arg = <<TRUE>>]
                   /\ pc' = "id_on"
                   /\ UNCHANGED <<last_command, last_failed_indices>>
              ELSE /\ run' = [run EXCEPT !.attempt = 0]
                   /\ pc' = "id_done"
                   /\ ClearRetryState
           /\ UNCHANGED retry_count

WalkBranchAnyNext(cmd) == IF cmd \in {<<"e">>, W_exit} THEN "id_exit" ELSE "id_next"

\* The branch of id_mode's loop a stripped, lower-cased line takes; "id_prompt"
\* is the last branch, which prints a hint and reads again.
WalkBranch(cmd) ==
    IF cmd \in {<<"e">>, W_exit} THEN "id_exit"
    ELSE IF cmd \in {<<"n">>, <<"n", "e", "x", "t">>} THEN "id_next"
    ELSE IF cmd \in {<<"p">>, <<"p", "r", "e", "v">>} THEN "id_prev"
    ELSE "id_prompt"

\* A line read at the '[id]>' prompt, stripped and lower-cased.
WalkInput(line) ==
    /\ pc = "id_prompt"
    /\ LET cmd == Lower(Strip(line))
           to  == WalkBranch(cmd)
       IN  IF to = "id_prompt" THEN UNCHANGED vars
           ELSE /\ pc' = to
                /\ run' = [run EXCEPT !.arg = <<FALSE>>, !.attempt = 0]
                /\ calls' = <<>>
                /\ UNCHANGED <<services_list, retry_count, last_command,
                               last_failed_indices>>

\* After id_mode the list is shown again and control returns to input().
WalkBack ==
    /\ pc = "id_done"
    /\ pc' = "prompt"
    /\ run' = IdleRun
    /\ calls' = <<>>
    /\ UNCHANGED <<services_list, retry_count, last_command, last_failed_indices>>

\* The lines typed in the identify sessions.
WalkLines ==
    { <<W_on, W_all>>, <<W_id, W_all>>, <<W_id, T_1>>, <<W_id, <<"7">>>>,
      <<W_retry>>, <<W_list>>, <<W_help>>, <<>>, <<<<"f", "o", "o">>>>,
      <<W_ui, T_0>>, <<W_retries, T_1>> }

\* The lines typed at the '[id]>' prompt.
WalkInputs == { <<"n">>, <<"P">>, <<"e">>, <<"x">>, <<"n", "e", "x", "t">>, <<>>,
                <<"n", "n">> }

T_20 == <<"2", ",", "0">>

\* Lines with a selector that names the devices in descending order.
OrderLines == { <<W_id, T_20>> }

\* The first scan of an identify session: as in the command sessions, or three
\* devices.
WalkScans ==
    FirstScans \cup
    { << [host_ip |-> 1, port |-> 80, friendly_name |-> <<"b">>],
         [host_ip |-> 2, port |-> 80, friendly_name |-> <<"A">>],
         [host_ip |-> 3, port |-> 80, friendly_name |-> <<"d">>] >> }

\* Lines whose selector is valid and whose value is not: a group id with a
\* character that is no letter, digit or underscore, and send and receive
\* lists with a number out of 1..8, a word, and an empty token.
BadValueLines ==
    { <<W_group, T_0, <<"a", "-">>>>,
      <<W_syncgroups, T_0, W_send, <<"9">>, W_recv, T_2>>,
      <<W_syncgroups, W_all, W_send, T_1, W_recv, <<"x">>>>,
      <<W_syncgroups, T_0, W_send, <<"1", ",", ",", "3">>, W_recv, T_2>> }

\* Identify sessions on the registry of the first scan.
NextWalk ==
    \/ \E found \in WalkScans : InitialScan(found)
    \/ \E command \in WalkLines : CmdOnOff(command)
    \/ \E command \in WalkLines \cup OrderLines : CmdId(command)
    \/ \E command \in BadValueLines : CmdGroup(command)
    \/ \E command \in BadValueLines : CmdSyncGroups(command)
    \/ \E command \in WalkLines : CmdRetry(command)
    \/ \E command \in WalkLines : CmdRetries(command)
    \/ \E command \in WalkLines : CmdList(command)
    \/ \E command \in WalkLines : CmdUi(command)
    \/ \E command \in WalkLines : CmdOther(command)
    \/ \E resp \in Responses(run.op) : TransportCall(resp)
    \/ \E resp \in Responses(run.op) : WalkCall(resp)
    \/ \E line \in WalkInputs : WalkInput(line)
    \/ LoopBack
    \/ WalkBack

SpecWalk == Init /\ [][NextWalk]_vars

\* ------------------------------------------------- interrupts, end of input

\* A loop without the KeyboardInterrupt handler: the interrupt ends the program.
AfterInterruptExits == "exited"

\* 'except KeyboardInterrupt': a message, and the loop reads the next line.
AfterInterrupt == "prompt"

\* 'except EOFError': a message and break.
AfterEof == "exited"

\* Ctrl-C while a call of a bulk loop is in flight. The per-device functions
\* catch Exception only, so the interrupt leaves the handler where it is;
\* written tells whether it came after the function had written its cache.
InterruptCall(written) ==
    /\ pc = "call"
    /\ LET idx == run.indices[run.pos]
       IN  services_list' =
               IF written
               THEN [services_list EXCEPT
                        ![idx + 1] = ApplyOp(Service(idx), run.op, run.arg, Done200)]
               ELSE services_list
    /\ pc' = AfterInterrupt
    /\ run' = IdleRun
    /\ calls' = <<>>
    /\ UNCHANGED <<retry_count, last_command, last_failed_indices>>

\* Ctrl-C in id_mode: at its input() or while one of its calls is in flight.
\* id_mode has no handler of its own; the lines after the call of id_mode in
\* the 'id' branch are skipped.
WalkInterrupt(written) ==
    /\ pc \in WalkCalling \cup {"id_prompt"}
    /\ pc = "id_prompt" => ~written
    /\ LET idx == run.indices[run.pos]
       IN  services_list' =
               IF written
               THEN [services_list EXCEPT
                        ![idx + 1] = ApplyOp(Service(idx), run.op, run.arg, Done200)]
               ELSE services_list
    /\ pc' = AfterInterrupt
    /\ run' = IdleRun
    /\ calls' = <<>>
    /\ UNCHANGED <<retry_count, last_command, last_failed_indices>>

\* End of input at the '[id]>' prompt.
WalkEof ==
    /\ pc = "id_prompt"
    /\ pc' = AfterEof
    /\ run' = IdleRun
    /\ calls' = <<>>
    /\ UNCHANGED <<services_list, retry_count, last_command, last_failed_indices>>

\* Ctrl-C and end of input at the main prompt.
PromptInterrupt ==
    /\ pc = "prompt"
    /\ pc' = AfterInterrupt
    /\ UNCHANGED <<services_list, retry_count, last_command, last_failed_indices, run,
                   calls>>

PromptEof ==
    /\ pc = "prompt"
    /\ pc' = AfterEof
    /\ UNCHANGED <<services_list, retry_count, last_command, last_failed_indices, run,
                   calls>>

\* The lines typed in the sessions with interrupts.
InterruptLines ==
    { <<W_on, W_all>>, <<W_off, T_0>>, <<W_power, W_all>>, <<W_id, W_all>>, <<W_retry>>,
      <<W_scan>>, <<W_group, T_0, <<"a">>>> }

\* Sessions in which Ctrl-C and end of input can come wherever the program
\* waits: at a prompt and during a call.
NextInterrupt ==
    \/ \E found \in FirstScans : InitialScan(found)
    \/ \E command \in InterruptLines : CmdOnOff(command)
    \/ \E command \in InterruptLines : CmdPower(command)
    \/ \E command \in InterruptLines : CmdId(command)
    \/ \E command \in InterruptLines : CmdRetry(command)
    \/ \E command \in InterruptLines, found \in ScanResults : CmdScan(command, found)
    \/ \E command \in InterruptLines : CmdGroup(command)
    \/ \E resp \in Responses(run.op) : TransportCall(resp)
    \/ \E resp \in Responses(run.op) : WalkCall(resp)
    \/ \E line \in WalkInputs : WalkInput(line)
    \/ LoopBack
    \/ WalkBack
    \/ \E written \in BOOLEAN : InterruptCall(written)
    \/ \E written \in BOOLEAN : WalkInterrupt(written)
    \/ WalkEof
    \/ PromptInterrupt
    \/ PromptEof

SpecInterrupt == Init /\ [][NextInterrupt]_vars

\* ----------------------------------------------------------- retry sessions

\* The bulk lines of the retry sessions.
RetryLines ==
    { <<W_on, W_all>>, <<W_off, T_1>>, <<W_sync, W_all, W_on>>,
      <<W_syncgroups, T_0, W_send, T_13, W_recv, T_2>>,
      <<W_syncgroups, T_0, <<"S", "E", "N", "D">>, T_2, <<"R", "E", "C", "V">>>>,
      <<W_retries, T_1>> }

\* Nothing is stored for retry.
NothingStored == IsNone(last_command) /\ last_failed_indices = <<>>

\* A successful call to device idx of the loop in progress.
SuccessAt(idx) ==
    /\ pc = "call"
    /\ run.indices[run.pos] = idx
    /\ TransportCall(Done200)

\* Sessions of a user who, once a bulk command has left failures, types
\* nothing but 'retry'.
NextRetry ==
    \/ \E found \in FirstScans : InitialScan(found)
    \/ NothingStored /\ \E command \in RetryLines : CmdOnOff(command)
    \/ NothingStored /\ \E command \in RetryLines : CmdSync(command)
    \/ NothingStored /\ \E command \in RetryLines : CmdSyncGroups(command)
    \/ NothingStored /\ \E command \in RetryLines : CmdRetries(command)
    \/ CmdRetry(<<W_retry>>)
    \/ \E resp \in Responses(run.op) : TransportCall(resp)
    \/ LoopBack

\* The user keeps typing retry, the loop goes on, and the calls to each device
\* succeed again and again when they are made again and again.
SpecRetry ==
    /\ Init
    /\ [][NextRetry]_vars
    /\ WF_vars(CmdRetry(<<W_retry>>))
    /\ WF_vars(LoopBack)
    /\ WF_vars(\E resp \in Responses(run.op) : TransportCall(resp))
    /\ \A idx \in 0..(MaxScan - 1) : SF_vars(SuccessAt(idx))

\* ------------------------------------------------- parser calls in isolation

\* A selector as the user composes it: terms joined by commas. A term is an
\* index, a range a-b, or a word (a group name or 'all').
IntTerm(n) == [kind |-> "int", a |-> n, b |-> n, text |-> <<>>]

RangeTerm(a, b) == [kind |-> "range", a |-> a, b |-> b, text |-> <<>>]

WordTerm(w) == [kind |-> "word", a |-> 0, b |-> 0, text |-> w]

\* The text of a term as typed.
TermText(term) ==
    IF term.kind = "int" THEN ToStr(term.a)
    ELSE IF term.kind = "range" THEN ToStr(term.a) \o <<"-">> \o ToStr(term.b)
    ELSE term.text

\* The text of a selector as typed.
SelectorText(terms) == Join([i \in 1..Len(terms) |-> TermText(terms[i])], <<",">>)

G_A == <<"A">>

\* The words used as terms: the group A in both cases, the default group in
\* mixed case, a group no device carries, and 'all' in both cases.
TermWords ==
    { <<"a">>, G_A, <<"_", "D", "e", "f", "a", "u", "l", "t">>, <<"z", "z">>,
      W_all, <<"A", "L", "L">> }

\* The terms: indices and range bounds up to the device count (so one past
\* the last index), and the words.
Terms ==
    {IntTerm(n) : n \in 0..MaxDevices}
        \cup {RangeTerm(a, b) : a \in 0..MaxDevices, b \in 0..MaxDevices}
        \cup {WordTerm(w) : w \in TermWords}

\* Selectors of one term and of two terms.
Selectors == {<<t>> : t \in Terms} \cup {<<t, u>> : t \in Terms, u \in Terms}

\* Device number i of a registry, in group g.
ParseDevice(i, g) ==
    [NewService([host_ip |-> i, port |-> 80, friendly_name |-> <<"d">> \o ToStr(i)])
        EXCEPT !.group = g]

\* The registries of n devices with each device in the default group or in A,
\* as the code keeps them: sorted.
RegistriesOf(n) ==
    { SortServices([i \in 1..n |-> ParseDevice(i, gs[i])]) :
          gs \in [1..n -> {DefaultGroup, G_A}] }

ParseRegistries == UNION {RegistriesOf(n) : n \in 1..MaxDevices}

\* The selector of the user manual, "0,2-4,7", on eight devices.
ManualSelector == <<IntTerm(0), RangeTerm(2, 4), IntTerm(7)>>

ManualRegistry == SortServices([i \in 1..8 |-> ParseDevice(i, DefaultGroup)])

\* The tokens of a sync-group list as typed.
MaskTokens ==
    { <<"1">>, <<"3">>, <<"5">>, <<"8">>, <<"9">>, <<"x">>, <<>>, <<" ">>,
      W_none, <<"N", "O", "N", "E">> }

\* Sync-group lists of one, two and three tokens.
MaskInputs ==
    {<<t>> : t \in MaskTokens}
        \cup {<<t, u>> : t \in MaskTokens, u \in MaskTokens}
        \cup {<<t, u, v>> : t \in MaskTokens, u \in MaskTokens, v \in MaskTokens}

\* A call of parse_range (run.arg: the selector, and whether the caller passes
\* the registry) or of parse_sync_groups (run.arg: the tokens) is about to run.
ParseCall(op, arg) == [IdleRun EXCEPT !.op = op, !.arg = arg]

InitParse ==
    /\ retry_count = 0
    /\ last_command = NoneVal
    /\ last_failed_indices = <<>>
    /\ calls = <<>>
    /\ pc = "called"
    /\ \/ /\ services_list \in ParseRegistries
          /\ run \in {ParseCall("parse_range", <<sel, reg>>) :
                          sel \in Selectors, reg \in BOOLEAN}
       \/ /\ services_list = ManualRegistry
          /\ run = ParseCall("parse_range", <<ManualSelector, TRUE>>)
       \/ /\ services_list \in RegistriesOf(3)
          /\ run = ParseCall("parse_range", <<<<IntTerm(5)>>, TRUE>>)
       \/ /\ services_list \in RegistriesOf(1)
          /\ run \in {ParseCall("parse_sync_groups", <<tokens>>) : tokens \in MaskInputs}
       \/ /\ services_list \in RegistriesOf(1)
          /\ run = ParseCall("id_mode", <<<<>>>>)

\* parse_range(range_str, len(services_list), services_list or None) returns;
\* run.indices holds what it returned.
CallParseRange ==
    /\ pc = "called"
    /\ run.op = "parse_range"
    /\ run' = [run EXCEPT !.indices =
                   ParseRange(SelectorText(run.arg[1]), Len(services_list),
                              IF run.arg[2] THEN Some(services_list) ELSE NoneVal)]
    /\ pc' = "returned"
    /\ UNCHANGED <<services_list, retry_count, last_command, last_failed_indices, calls>>

\* parse_sync_groups(groups_str) returns; run.indices holds what it returned.
CallParseSyncGroups ==
    /\ pc = "called"
    /\ run.op = "parse_sync_groups"
    /\ run' = [run EXCEPT !.indices = ParseSyncGroups(Join(run.arg[1], <<",">>))]
    /\ pc' = "returned"
    /\ UNCHANGED <<services_list, retry_count, last_command, last_failed_indices, calls>>

\* id_mode(services_list, indices) with an empty list of indices (run.arg)
\* returns at once.
CallIdMode ==
    /\ pc = "called"
    /\ run.op = "id_mode"
    /\ run.arg[1] = <<>>
    /\ pc' = "returned"
    /\ UNCHANGED <<services_list, retry_count, last_command, last_failed_indices, run,
                   calls>>

NextParse == CallParseRange \/ CallParseSyncGroups \/ CallIdMode

SpecParse == InitParse /\ [][NextParse]_vars

\* ------------------------------------------------------------ claims C1-C5

\* The step is an accepted 'scan' command that found these records.
ScanStep(found) == CmdScan(<<W_scan>>, found)

\* The last record of a scan with this address, as an index into found (0: none).
LatestAt(found, ip) ==
    IF \E k \in 1..Len(found) : found[k].host_ip = ip
    THEN CHOOSE k \in 1..Len(found) :
             found[k].host_ip = ip /\ \A l \in (k + 1)..Len(found) : found[l].host_ip # ip
    ELSE 0

\* The user data of a device: its group and its four caches.
UserData(s) == <<s.group, s.power_state, s.sync_enabled, s.sync_send, s.sync_recv>>

\* After a merge, old device d is still in the registry with its user data, and
\* with the name and port of the latest record of its address if there is one.
KeptByMerge(d, found, new) ==
    \E j \in 1..Len(new) :
        /\ new[j].host_ip = d.host_ip
        /\ UserData(new[j]) = UserData(d)
        /\ LET k == LatestAt(found, d.host_ip)
           IN  IF k = 0
               THEN new[j].friendly_name = d.friendly_name /\ new[j].port = d.port
               ELSE new[j].friendly_name = found[k].friendly_name
                    /\ new[j].port = found[k].port

\* C1: a merge (a scan with a non-empty registry) leaves the group and the
\* caches of every device already in the registry unchanged and sets its name
\* and port to those of the latest scanned record with its address.
C1_MergeKeepsUserData ==
    [][\A found \in ScanResults :
          (ScanStep(found) /\ services_list # <<>>)
              => \A i \in 1..Len(services_list) :
                     KeptByMerge(services_list[i], found, services_list')]_vars

\* C2: in every reachable state no two devices of the registry have the same
\* address.
C2_KeyUnique ==
    \A i, j \in 1..Len(services_list) :
        i # j => services_list[i].host_ip # services_list[j].host_ip

Addresses(list) == {list[i].host_ip : i \in 1..Len(list)}

\* C3: a merge removes no address and leaves a device the scan did not return
\* as it was; a scan of zero records leaves the registry unchanged; a device
\* seen for the first time is added with group '_default' and unknown caches.
C3_MergeRemovesNothing ==
    [][\A found \in ScanResults :
          (ScanStep(found) /\ services_list # <<>>)
              => /\ Addresses(services_list) \subseteq Addresses(services_list')
                 /\ \A i \in 1..Len(services_list) :
                        services_list[i].host_ip \notin Addresses(found)
                            => services_list[i] \in Range(services_list')
                 /\ found = <<>> => services_list' = services_list
                 /\ \A j \in 1..Len(services_list') :
                        services_list'[j].host_ip \notin Addresses(services_list)
                            => UserData(services_list'[j])
                                   = <<DefaultGroup, NoneVal, NoneVal, NoneVal, NoneVal>>]_vars

\* The claimed order of two devices: by (group != '_default', lower-cased
\* group, lower-cased display name), s not after t.
NotAfter(s, t) ==
    LET sd == s.group = DefaultGroup
        td == t.group = DefaultGroup
    IN  \/ sd /\ ~td
        \/ sd = td /\ StrLess(Lower(s.group), Lower(t.group))
        \/ sd = td /\ Lower(s.group) = Lower(t.group)
                   /\ ~StrLess(Lower(t.friendly_name), Lower(s.friendly_name))

\* C4: whenever the command loop waits for input, the registry is sorted by
\* (group != '_default', lower-cased group, lower-cased display name).
C4_SortedAtPrompt ==
    pc = "prompt" =>
        \A i \in 1..(Len(services_list) - 1) :
            NotAfter(services_list[i], services_list[i + 1])

\* A group assignment has put the device named 'b' before the device named 'A'.
C4_Witness ==
    /\ pc = "prompt"
    /\ Len(services_list) = 2
    /\ services_list[1].friendly_name = <<"b">>
    /\ services_list[2].friendly_name = <<"A">>
    /\ services_list[2].group # DefaultGroup

\* C5: every device whose group equals '_default' ignoring case stands before
\* every device of any other group.
C5_DefaultGroupFirst ==
    pc = "prompt" =>
        \A i, j \in 1..Len(services_list) :
            (/\ Lower(services_list[i].group) = DefaultGroup
             /\ Lower(services_list[j].group) # DefaultGroup) => i < j

\* ----------------------------------------------------------- claims C6-C10

\* The targets of the bulk handler in progress.
Targets == Range(run.indices)

\* The positions in the call log of the calls to device idx.
CallsTo(idx) == {k \in 1..Len(calls) : calls[k].idx = idx}

FailedCallsTo(idx) == {k \in CallsTo(idx) : ~calls[k].ok}

\* C6: when a retryable bulk command finishes, the stored failure set is
\* exactly the set of targets for which every attempt failed.
C6_FailureSetExact ==
    pc = "finished" =>
        /\ Range(last_failed_indices)
               = {t \in Targets : CallsTo(t) # {} /\ FailedCallsTo(t) = CallsTo(t)}
        /\ Cardinality(Range(last_failed_indices)) = Len(last_failed_indices)

\* Of two targets one failed every attempt; the other failed once and then
\* succeeded, and is not in the failure set.
C6_Witness ==
    /\ pc = "finished"
    /\ Len(run.indices) = 2
    /\ last_failed_indices = <<1>>
    /\ FailedCallsTo(0) # {}
    /\ FailedCallsTo(0) # CallsTo(0)

\* The plan the handler of a typed line works out (NoneVal: turned down).
HandlerPlan(command) ==
    LET cmd == Cmd(command)
    IN  IF cmd \in {W_on, W_off} THEN OnOffPlan(command)
        ELSE IF cmd = W_reboot THEN RebootPlan(command)
        ELSE IF cmd = W_power THEN PowerPlan(command)
        ELSE IF cmd = W_state THEN StatePlan(command)
        ELSE IF cmd = W_info THEN InfoPlan(command)
        ELSE IF cmd = W_sync THEN SyncPlan(command)
        ELSE IF cmd = W_syncgroups THEN SyncGroupsPlan(command)
        ELSE NoneVal

\* The plan 'retry' would run from the current state (NoneVal: it runs nothing).
RetryWouldRun ==
    IF IsNone(RetryCommand) THEN NoneVal ELSE RetryPlan(Val(RetryCommand))

\* C7: retry re-invokes the same operation with the same parameters on exactly
\* the stored failure set; when it finishes the stored failure set holds the
\* failures of this attempt, a subset of the previous failure set.
C7_RetryReplaysFailures ==
    /\ (pc = "prompt" /\ ~IsNone(last_command) /\ last_failed_indices # <<>>) =>
            /\ ~IsNone(RetryWouldRun)
            /\ Range(Val(RetryWouldRun).indices) = Range(last_failed_indices)
            /\ Val(RetryWouldRun).op = Val(HandlerPlan(Val(last_command))).op
            /\ Val(RetryWouldRun).arg = Val(HandlerPlan(Val(last_command))).arg
    /\ (pc = "finished" /\ run.retrying) =>
            /\ {calls[k].idx : k \in 1..Len(calls)} = Range(run.prev_failed)
            /\ Range(last_failed_indices) \subseteq Range(run.prev_failed)

\* C8: after a retry in which every previously failed device succeeds, the
\* failure set is empty and no last command remains stored.
C8_RetryClearsStoredState ==
    (pc = "finished" /\ run.retrying /\ last_failed_indices = <<>>)
        => IsNone(last_command)

\* C9: each target is called at most retries+1 times, never again after its
\* first success, and is reported failed only after retries+1 failed calls.
C9_AttemptsPerDevice ==
    /\ \A t \in Targets : Cardinality(CallsTo(t)) <= retry_count + 1
    /\ \A k, l \in 1..Len(calls) :
           (k < l /\ calls[k].ok) => calls[l].idx # calls[k].idx
    /\ \A t \in Range(last_failed_indices) :
           pc \in {"call", "finished"}
               => Cardinality(FailedCallsTo(t)) = retry_count + 1

\* With one retry: a device succeeded on its second attempt, another failed twice.
C9_Witness ==
    /\ pc = "finished"
    /\ retry_count = 1
    /\ Cardinality(CallsTo(0)) = 2
    /\ FailedCallsTo(0) # CallsTo(0)
    /\ last_failed_indices = <<1>>

\* C10: a bulk command attempts every target at least once whatever the
\* outcomes, the retry count is never negative, and the command finishes
\* after at most |targets| * (retries+1) calls.
C10_EveryTargetAttempted ==
    /\ retry_count >= 0
    /\ Len(calls) <= Len(run.indices) * (retry_count + 1)
    /\ pc = "call" => Len(calls) < Len(run.indices) * (retry_count + 1)
    /\ pc = "finished" => \A t \in Targets : CallsTo(t) # {}

\* Every call of a command on two targets failed, with one retry each.
C10_Witness ==
    /\ pc = "finished"
    /\ retry_count = 1
    /\ Len(run.indices) = 2
    /\ Len(calls) = 4
    /\ Len(last_failed_indices) = 2

\* ---------------------------------------------------------- claims C11-C20

\* The cached fields of a service.
Cache(s) == <<s.power_state, s.sync_enabled, s.sync_send, s.sync_recv>>

\* C11: a failed per-device call leaves every cached field of that device
\* unchanged, for every operation and every attempt.
C11_FailedCallKeepsCache ==
    [][\A resp \in Responses(run.op) :
           (TransportCall(resp) /\ ~resp.ok) =>
               Cache(services_list'[run.indices[run.pos] + 1])
                   = Cache(Service(run.indices[run.pos]))]_vars

\* The second attempt of a call has failed on a device whose power cache is set.
C11_Witness ==
    /\ Len(calls) >= 2
    /\ ~calls[Len(calls)].ok
    /\ calls[Len(calls) - 1].idx = calls[Len(calls)].idx
    /\ ~IsNone(Service(calls[Len(calls)].idx).power_state)

\* C12: a successful call updates its cache: on/off the requested power
\* state, sync the requested flag, syncgroups the requested masks, and a
\* status query (the power and the state command) the reported power state.
C12_SuccessUpdatesCache ==
    [][\A resp \in Responses(run.op) :
           (TransportCall(resp) /\ resp.ok) =>
               LET after == services_list'[run.indices[run.pos] + 1]
               IN  /\ run.op = "set_power" => after.power_state = Some(run.arg[1])
                   /\ run.op = "set_sync_enabled" => after.sync_enabled = Some(run.arg[1])
                   /\ run.op = "set_sync_groups" =>
                          /\ after.sync_send = Some(run.arg[1])
                          /\ after.sync_recv = Some(run.arg[2])
                   /\ (run.op = "get_status" /\ ~IsNone(resp.on)) =>
                          after.power_state = resp.on]_vars

\* The step is a command that is no retryable bulk command, is accepted and
\* ends at once: a listing, 'help', an empty line (which shows the list
\* again), 'ui <nn>' or 'retries <n>'.
Completes(command) ==
    \/ CmdList(command)
    \/ UiAccepted(command) /\ CmdUi(command)
    \/ RetriesAccepted(command) /\ CmdRetries(command)
    \/ (command = <<>> \/ Cmd(command) = W_help) /\ CmdOther(command)

\* C13: after a command that is not a retryable bulk command completes, the
\* identify walk included, no last command and no failure set are stored.
C13_NonBulkClearsRetryState ==
    /\ pc = "id_done" => IsNone(last_command) /\ last_failed_indices = <<>>
    /\ pc = "prompt" =>
           \A command \in WalkLines :
               ENABLED Completes(command) =>
                   ENABLED (/\ Completes(command)
                            /\ IsNone(last_command')
                            /\ last_failed_indices' = <<>>)

\* C14: retry with no last command stored, or with an empty failure set,
\* is a no-op: no call, and registry, last command and failure set unchanged.
C14_RetryWithNothingStored ==
    [][(CmdRetry(<<W_retry>>) /\ (IsNone(last_command) \/ last_failed_indices = <<>>))
           => /\ pc' = "prompt"
              /\ calls' = <<>>
              /\ UNCHANGED <<services_list, last_command, last_failed_indices>>]_vars

\* At the prompt a last command is stored with an empty failure set, and
\* retry can be typed.
C14_Witness ==
    /\ pc = "prompt"
    /\ services_list # <<>>
    /\ ~IsNone(last_command)
    /\ last_failed_indices = <<>>
    /\ ENABLED CmdRetry(<<W_retry>>)

\* The call in progress is a call of op and has returned.
Returned(op) == pc = "returned" /\ run.op = op

\* The term is the word 'all', in any case.
IsAllWord(term) == term.kind = "word" /\ Lower(term.text) = W_all

\* Every index of the registry, ascending.
AllIndices == [i \in 1..Len(services_list) |-> i - 1]

\* C15: a selector that contains 'all' (in any case) as one of its terms
\* resolves to every index 0..deviceCount-1, whatever the other terms.
C15_AllShortCircuits ==
    (Returned("parse_range")
         /\ \E i \in 1..Len(run.arg[1]) : IsAllWord(run.arg[1][i]))
        => run.indices = Some(AllIndices)

\* C16: for N >= 1 devices, parse_range("all", N) and parse_range("0-(N-1)", N)
\* return the same index list, which is 0..N-1.
C16_AllEqualsFullRange ==
    (Returned("parse_range")
         /\ run.arg[1] \in { <<WordTerm(W_all)>>,
                             <<RangeTerm(0, Len(services_list) - 1)>> })
        => /\ run.indices = Some(AllIndices)
           /\ run.indices
                  = ParseRange(SelectorText(<<RangeTerm(0, Len(services_list) - 1)>>),
                               Len(services_list), NoneVal)
           /\ run.indices = ParseRange(W_all, Len(services_list), NoneVal)

\* "0-2" has been resolved on three devices.
C16_Witness ==
    /\ Returned("parse_range")
    /\ Len(services_list) = 3
    /\ run.arg[1] = <<RangeTerm(0, 2)>>
    /\ run.indices = Some(<<0, 1, 2>>)

\* The indices a numeric term stands for, and whether it is valid on n devices.
TermSet(term) == term.a..term.b

TermValid(term, n) == 0 <= term.a /\ term.a <= term.b /\ term.b < n

NumericOnly(terms) == \A i \in 1..Len(terms) : terms[i].kind \in {"int", "range"}

Ascending(list) == \A i \in 1..(Len(list) - 1) : list[i] < list[i + 1]

\* C17: a selector of numeric terms resolves iff every index is below the
\* device count and every range a-b has a <= b < device count; the result is
\* the ascending, duplicate-free union of the terms' inclusive intervals.
C17_NumericSelector ==
    (Returned("parse_range") /\ NumericOnly(run.arg[1])) =>
        LET terms == run.arg[1]
            n     == Len(services_list)
        IN  /\ IF \A i \in 1..Len(terms) : TermValid(terms[i], n)
               THEN /\ ~IsNone(run.indices)
                    /\ Ascending(Val(run.indices))
                    /\ Range(Val(run.indices))
                           = UNION {TermSet(terms[i]) : i \in 1..Len(terms)}
               ELSE IsNone(run.indices)
            /\ terms = ManualSelector => run.indices = Some(<<0, 2, 3, 4, 7>>)
            /\ terms = <<IntTerm(5)>> => IsNone(run.indices)

\* "0,2-4,7" has been resolved on eight devices.
C17_Witness ==
    /\ Returned("parse_range")
    /\ Len(services_list) = 8
    /\ run.arg[1] = ManualSelector
    /\ run.indices = Some(<<0, 2, 3, 4, 7>>)

\* The term is a group name.
IsGroupWord(term) == term.kind = "word" /\ ~IsAllWord(term)

\* The indices of the devices that carry the group named w, ignoring case.
Carriers(w) ==
    {i - 1 : i \in {j \in 1..Len(services_list) :
                       Lower(services_list[j].group) = Lower(w)}}

\* What a valid term of either kind stands for.
TermIndices(term) == IF term.kind = "word" THEN Carriers(term.text) ELSE TermSet(term)

\* C18: a group-name term resolves, ignoring case, to exactly the devices that
\* carry that group; a group no device carries, or a group name where no
\* registry is supplied, is an error and never an empty selection.
C18_GroupTerm ==
    (/\ Returned("parse_range")
     /\ \E i \in 1..Len(run.arg[1]) : IsGroupWord(run.arg[1][i])
     /\ \A i \in 1..Len(run.arg[1]) :
            \/ IsGroupWord(run.arg[1][i])
            \/ /\ run.arg[1][i].kind # "word"
               /\ TermValid(run.arg[1][i], Len(services_list))) =>
        LET terms == run.arg[1]
        IN  IF /\ run.arg[2]
               /\ \A i \in 1..Len(terms) :
                      IsGroupWord(terms[i]) => Carriers(terms[i].text) # {}
            THEN /\ ~IsNone(run.indices)
                 /\ Val(run.indices) # <<>>
                 /\ Ascending(Val(run.indices))
                 /\ Range(Val(run.indices))
                        = UNION {TermIndices(terms[i]) : i \in 1..Len(terms)}
            ELSE IsNone(run.indices)

\* The term "a" has been resolved on a registry where one of three devices
\* carries the group "A".
C18_Witness ==
    /\ Returned("parse_range")
    /\ Len(services_list) = 3
    /\ run.arg[1] = <<WordTerm(<<"a">>)>>
    /\ run.arg[2]
    /\ ~IsNone(run.indices)
    /\ Len(Val(run.indices)) = 1
    /\ Service(Val(run.indices)[1]).group = G_A

\* The step is the handler of a bulk command line.
BulkStep(command) ==
    \/ CmdOnOff(command)
    \/ CmdReboot(command)
    \/ CmdPower(command)
    \/ CmdState(command)
    \/ CmdInfo(command)
    \/ CmdSync(command)
    \/ CmdSyncGroups(command)

\* C19: a bulk command whose selector has an invalid term is aborted as a
\* whole: no call, no device field changed, and the stored last command and
\* failure set left as they were.
C19_InvalidSelectorAborts ==
    [][\A command \in BadSelectorLines :
           BulkStep(command) =>
               /\ pc' = "prompt"
               /\ calls' = <<>>
               /\ UNCHANGED <<services_list, last_command, last_failed_indices>>]_vars

\* With devices in the registry and a failure set stored, a command with the
\* selector "0,7" can be typed.
C19_Witness ==
    /\ pc = "prompt"
    /\ Len(services_list) = 2
    /\ last_failed_indices # <<>>
    /\ ENABLED CmdOnOff(<<W_on, T_07>>)

\* The sum of 2^(n-1) over a set of group numbers.
RECURSIVE MaskOf(_)
MaskOf(S) ==
    IF S = {} THEN 0
    ELSE LET n == CHOOSE x \in S : TRUE
         IN  Pow2(n - 1) + MaskOf(S \ {n})

\* The group numbers 1..8 whose decimal text occurs among the tokens.
NumbersIn(tokens) == {n \in 1..8 : ToStr(n) \in Range(tokens)}

\* C20: parse_sync_groups returns 0 for the empty string, an all-whitespace
\* string and 'none' in any case; for a comma-separated list of integers in
\* 1..8 it returns the mask in 0..255 with bit n-1 set iff n is in the list,
\* whatever the order and the repetitions.
C20_SyncGroupMask ==
    Returned("parse_sync_groups") =>
        LET tokens == run.arg[1]
        IN  /\ (Len(tokens) = 1 /\ (Strip(tokens[1]) = <<>> \/ Lower(tokens[1]) = W_none))
                   => run.indices = Some(0)
            /\ (\A i \in 1..Len(tokens) : tokens[i] \in {ToStr(n) : n \in 1..8})
                   => /\ run.indices = Some(MaskOf(NumbersIn(tokens)))
                      /\ Val(run.indices) \in 0..255
            /\ tokens = <<T_1, <<"3">>, <<"5">>>> => run.indices = Some(21)

\* "5,1,5" has been parsed to 17.
C20_Witness ==
    /\ Returned("parse_sync_groups")
    /\ run.arg[1] = <<<<"5">>, T_1, <<"5">>>>
    /\ run.indices = Some(17)

\* ---------------------------------------------------------- claims C21-C30

\* The token is the decimal text of an integer in 1..8.
IsGroupNumber(token) == Strip(token) \in {ToStr(n) : n \in 1..8}

\* The input as a whole is one of the texts that stand for "no groups".
MeansNoGroups(tokens) ==
    Len(tokens) = 1 /\ (Strip(tokens[1]) = <<>> \/ Lower(tokens[1]) = W_none)

\* C21: parse_sync_groups rejects the whole input when any comma-separated
\* token is not an integer in 1..8 (out of range, no number, or empty).
C21_BadMaskTokenRejected ==
    (/\ Returned("parse_sync_groups")
     /\ ~MeansNoGroups(run.arg[1])
     /\ \E i \in 1..Len(run.arg[1]) : ~IsGroupNumber(run.arg[1][i]))
        => IsNone(run.indices)

\* C22: a syncgroups command with an invalid send or receive list, and a
\* group command with an invalid group id, make no transport call and change
\* neither the registry nor the stored command and failure set.
C22_BadValueChangesNothing ==
    [][\A command \in BadValueLines :
          (CmdSyncGroups(command) \/ CmdGroup(command))
              => /\ pc' = "prompt"
                 /\ calls' = calls
                 /\ UNCHANGED <<services_list, last_command, last_failed_indices>>]_vars

\* The group lines of the registry sessions whose group id is accepted, and
\* the indices their selector names on a registry of n devices.
GroupOkLines ==
    {command \in RegistryLines :
        Cmd(command) = W_group /\ command[3] # <<"a", "-">>}

SelectedBy(command, n) == IF command[2] = W_all THEN 0..(n - 1) ELSE {0}

\* The group a device at index idx has after 'group R g'.
GroupAfter(list, idx, R, g) ==
    IF idx \in R THEN g
    ELSE IF Lower(g) # DefaultGroup /\ Lower(list[idx + 1].group) = Lower(g)
    THEN DefaultGroup
    ELSE list[idx + 1].group

\* C23: 'group R g' gives g to the devices of R; when g is not the default
\* group it leaves g (compared in lower case) on exactly the devices of R and
\* moves every other carrier to "_default"; no other group and no other field
\* changes, and no device is added or lost.
C23_GroupExclusive ==
    [][\A command \in GroupOkLines :
          (CmdGroup(command) /\ services_list # <<>>) =>
              LET n == Len(services_list)
                  R == SelectedBy(command, n)
                  g == command[3]
              IN  /\ Len(services_list') = n
                  /\ \A idx \in 0..(n - 1) : \E j \in 1..n :
                        services_list'[j] =
                            [services_list[idx + 1] EXCEPT
                                !.group = GroupAfter(services_list, idx, R, g)]
                  /\ Lower(g) # DefaultGroup =>
                        Cardinality({j \in 1..n :
                            Lower(services_list'[j].group) = Lower(g)}) = Cardinality(R)]_vars

\* 'group 0 A' is about to take the group from a device outside the selection
\* that carries it as "a".
C23_Witness ==
    /\ pc = "prompt"
    /\ \E i \in 2..Len(services_list) : services_list[i].group = <<"a">>
    /\ ENABLED (/\ CmdGroup(<<W_group, T_0, <<"A">>>>)
                /\ \A j \in 1..Len(services_list) : services_list'[j].group # <<"a">>
                /\ \E j \in 1..Len(services_list) : services_list'[j].group = <<"A">>)

\* The texts of the form ^[A-Za-z0-9_]+$.
IsWord(s) ==
    /\ Len(s) > 0
    /\ \A i \in 1..Len(s) : s[i] \in DigitChars \cup UpperChars \cup LowerChars \cup {"_"}

\* C24: every device's group label is a non-empty text of ASCII letters,
\* digits and underscores, and a group command whose group id is not of that
\* form changes no device.
C24_GroupLabelsAreWords ==
    /\ \A i \in 1..Len(services_list) : IsWord(services_list[i].group)
    /\ \A command \in RegistryLines :
          (Cmd(command) = W_group /\ ~IsWord(command[3]))
              => ~ENABLED (CmdGroup(command) /\ services_list' # services_list)

\* The devices called in a log, in order, each run of calls to one device
\* (its attempts) counted once.
RECURSIVE CalledInOrder(_)
CalledInOrder(log) ==
    IF log = <<>> THEN <<>>
    ELSE IF Len(log) > 1 /\ log[1].idx = log[2].idx THEN CalledInOrder(Tail(log))
    ELSE <<log[1].idx>> \o CalledInOrder(Tail(log))

\* Every call of the log is a set_power(state) to the device idx, and there is one.
AllSent(log, idx, state) ==
    /\ log # <<>>
    /\ \A i \in 1..Len(log) :
          log[i].idx = idx /\ log[i].op = "set_power" /\ log[i].arg = <<state>>

\* C25: the identify walk over N >= 1 targets. Entry sends turn-off to every
\* target in turn and then turn-on to position 0; 'next' sends turn-off to the
\* current target and turn-on to position (pos + 1) mod N, 'prev' the same
\* with (pos - 1) mod N; 'exit' sends turn-off to the current target and ends
\* the walk. (run.pos counts from 1; calls holds the calls since the last line.)
C25_WalkTransitions ==
    [][LET n   == Len(run.indices)
           cur == run.indices[run.pos]
       IN  /\ (pc = "id_off" /\ pc' = "id_on") =>
                 /\ CalledInOrder(calls') = run.indices
                 /\ \A i \in 1..Len(calls') : calls'[i].arg = <<FALSE>>
                 /\ run'.pos = 1 /\ run'.arg = <<TRUE>> /\ calls' # <<>>
           /\ (pc = "id_on" /\ pc' = "id_prompt") =>
                 /\ run'.pos = run.pos
                 /\ \E k \in 1..Len(calls') :
                       /\ AllSent(SubSeq(calls', k, Len(calls')), cur, TRUE)
                       /\ \A i \in 1..(k - 1) : calls'[i].arg = <<FALSE>>
           /\ (pc = "id_prompt" /\ \E line \in {<<"n">>, <<"n", "e", "x", "t">>} : WalkInput(line))
                 => pc' = "id_next" /\ run'.pos = run.pos /\ calls' = <<>>
           /\ (pc = "id_prompt" /\ \E line \in {<<"P">>} : WalkInput(line))
                 => pc' = "id_prev" /\ run'.pos = run.pos /\ calls' = <<>>
           /\ (pc = "id_prompt" /\ \E line \in {<<"e">>} : WalkInput(line))
                 => pc' = "id_exit" /\ run'.pos = run.pos /\ calls' = <<>>
           /\ (pc = "id_next" /\ pc' # pc) =>
                 /\ pc' = "id_on"
                 /\ AllSent(calls', cur, FALSE)
                 /\ run'.pos - 1 = ((run.pos - 1) + 1) % n
                 /\ run'.arg = <<TRUE>>
           /\ (pc = "id_prev" /\ pc' # pc) =>
                 /\ pc' = "id_on"
                 /\ AllSent(calls', cur, FALSE)
                 /\ run'.pos - 1 = ((run.pos - 1) + n - 1) % n
                 /\ run'.arg = <<TRUE>>
           /\ (pc = "id_exit" /\ pc' # pc) =>
                 /\ pc' = "id_done"
                 /\ AllSent(calls', cur, FALSE)
           /\ pc = "id_done" => pc' = "prompt"]_vars

\* 'prev' at position 0 of three targets has turned the first target off and
\* the last one on.
C25_Witness ==
    /\ pc = "id_prompt"
    /\ Len(run.indices) = 3
    /\ run.pos = 3
    /\ calls # <<>>
    /\ calls[1].idx = run.indices[1] /\ calls[1].arg = <<FALSE>>
    /\ calls[Len(calls)].idx = run.indices[3] /\ calls[Len(calls)].arg = <<TRUE>>

\* C26: the identify walk visits the targets in the order the selector gives
\* them: 'id 2,0' walks the list 2, 0 (turn-off to 2 then 0, device 2 lit
\* first), as 'id 2,0,3' walks 2, 0, 3.
C26_WalkInGivenOrder ==
    [][(CmdId(<<W_id, T_20>>) /\ pc' = "id_off") => run'.indices = <<2, 0>>]_vars

\* C27: while the walk waits for a line, the target at the current position is
\* on and every other target is off, whatever the power calls returned.
C27_OneTargetLit ==
    pc = "id_prompt" =>
        \A k \in 1..Len(run.indices) :
            Service(run.indices[k]).power_state = Some(k = run.pos)

\* The words the '[id]>' prompt knows.
WalkWords ==
    { <<"n">>, <<"n", "e", "x", "t">>, <<"p">>, <<"p", "r", "e", "v">>, <<"e">>, W_exit }

\* C28: at the '[id]>' prompt a line that is none of n/next, p/prev, e/exit
\* leaves the walk showing the same position, makes no transport call and
\* changes no device cache.
C28_UnknownWalkInput ==
    [][\A line \in WalkInputs :
          (WalkInput(line) /\ Lower(Strip(line)) \notin WalkWords)
              => /\ pc' = "id_prompt"
                 /\ run'.pos = run.pos /\ run'.indices = run.indices
                 /\ calls' = calls
                 /\ services_list' = services_list]_vars

\* The walk shows the second of three targets and reads a line it does not know.
C28_Witness ==
    /\ pc = "id_prompt"
    /\ Len(run.indices) = 3 /\ run.pos = 2
    /\ ENABLED (WalkInput(<<"x">>) /\ pc' = "id_prompt")
    /\ ENABLED (WalkInput(<<>>) /\ pc' = "id_prompt")

\* C29: id_mode with an empty target list returns without a transport call
\* and without touching the registry, and no selector that parse_range accepts
\* on a registry of at least one device resolves to an empty list.
C29_NoEmptyWalk ==
    /\ (Returned("id_mode") /\ run.arg[1] = <<>>) =>
           calls = <<>> /\ services_list \in RegistriesOf(1)
    /\ (Returned("parse_range") /\ Len(services_list) >= 1 /\ ~IsNone(run.indices)) =>
           Val(run.indices) # <<>>

\* The smallest accepted selectors have resolved to one index: "0-0" and a
\* group one device carries.
C29_Witness ==
    /\ Returned("parse_range")
    /\ Len(Val(run.indices)) = 1
    /\ run.arg[1] \in {<<RangeTerm(0, 0)>>, <<WordTerm(<<"a">>)>>}

\* The operations of the state-setting commands on, off, sync and syncgroups.
SettingOps == {"set_power", "set_sync_enabled", "set_sync_groups"}

\* The device's cache has what the operation sets.
Holds(service, op, arg) ==
    /\ op = "set_power" => service.power_state = Some(arg[1])
    /\ op = "set_sync_enabled" => service.sync_enabled = Some(arg[1])
    /\ op = "set_sync_groups" =>
          service.sync_send = Some(arg[1]) /\ service.sync_recv = Some(arg[2])

\* C30: on, off, sync and syncgroups are idempotent when every call succeeds.
\* When such a command has finished, every target's cache has what the command
\* sets and the registry's groups and order are as before; and a successful
\* call to a device that already has it (the same command issued again, such
\* as 'on' to a device that is on) is recorded as a success and leaves the
\* registry as it is.
C30_SettingIsIdempotent ==
    /\ [](( /\ pc = "finished"
            /\ run.op \in SettingOps
            /\ \A k \in 1..Len(calls) : calls[k].ok)
              => \A t \in Targets : Holds(Service(t), run.op, run.arg))
    /\ [][\A resp \in Responses(run.op) :
             ( /\ TransportCall(resp)
               /\ run.op \in SettingOps )
                 => /\ [i \in 1..Len(services_list') |->
                           [services_list'[i] EXCEPT !.power_state = NoneVal,
                               !.sync_enabled = NoneVal, !.sync_send = NoneVal,
                               !.sync_recv = NoneVal]]
                       = [i \in 1..Len(services_list) |->
                           [services_list[i] EXCEPT !.power_state = NoneVal,
                               !.sync_enabled = NoneVal, !.sync_send = NoneVal,
                               !.sync_recv = NoneVal]]
                    /\ (resp.ok /\ Holds(Service(run.indices[run.pos]), run.op, run.arg))
                          => /\ services_list' = services_list
                             /\ last_failed_indices' = last_failed_indices]_vars

\* 'on all' is running on two devices that are on, and its first call has
\* succeeded.
C30_Witness ==
    /\ pc = "call"
    /\ run.op = "set_power" /\ run.arg = <<TRUE>> /\ ~run.retrying
    /\ Len(run.indices) = 2 /\ run.pos = 2
    /\ \A k \in 1..Len(calls) : calls[k].ok
    /\ \A t \in Targets : Service(t).power_state = Some(TRUE)

\* ---------------------------------------------------------- claims C31-C37

\* A device without its four caches: key, port, name and group.
Identity(service) ==
    [service EXCEPT !.power_state = NoneVal, !.sync_enabled = NoneVal,
                    !.sync_send = NoneVal, !.sync_recv = NoneVal]

\* C31: a user interrupt during a per-device call of a bulk command does not
\* end the command loop and does not corrupt the registry: the devices, their
\* groups and their order are as before, the caches of the other devices
\* (whatever the command has written so far) are kept, and the loop reads the
\* next command.
C31_InterruptKeepsRegistry ==
    [][\A written \in BOOLEAN :
          InterruptCall(written) =>
              /\ pc' = "prompt"
              /\ Len(services_list') = Len(services_list)
              /\ \A i \in 1..Len(services_list) :
                    /\ Identity(services_list'[i]) = Identity(services_list[i])
                    /\ i # run.indices[run.pos] + 1 => services_list'[i] = services_list[i]
              /\ run' = IdleRun]_vars

\* 'on all' was interrupted during its call to the second device: the first
\* device is cached on, the command is stored, the prompt is back and takes
\* the next command.
C31_Witness ==
    /\ pc = "prompt"
    /\ last_command = Some(<<W_on, W_all>>)
    /\ last_failed_indices = <<>>
    /\ Len(services_list) = 2
    /\ services_list[1].power_state = Some(TRUE)
    /\ services_list[2].power_state = NoneVal
    /\ ENABLED (CmdOnOff(<<W_off, T_0>>) /\ pc' = "call")

\* The states of the identify walk before its end.
WalkStates == WalkCalling \cup {"id_prompt"}

\* C36: every way the identify walk ends, a user interrupt or end of input at
\* its prompt included, is preceded by a turn-off sent to the device that is
\* lit and is followed by clearing the stored command and failure set.
C36_WalkEndsDark ==
    [][(pc \in WalkStates /\ pc' \notin WalkStates) =>
          /\ pc' = "id_done"
          /\ calls' # <<>>
          /\ calls'[Len(calls')].idx = run.indices[run.pos]
          /\ calls'[Len(calls')].arg = <<FALSE>>
          /\ last_command' = NoneVal
          /\ last_failed_indices' = <<>>]_vars

\* C32: stored failure indices are never stale. Every index of the stored
\* failure set is an index of the registry, and every step that changes the
\* registry's length, its order or a device's key, name or group ends with no
\* stored command and an empty failure set, so the indices that stay stored
\* denote the devices that failed.
C32_FailureIndicesFresh ==
    /\ [](\A k \in 1..Len(last_failed_indices) :
              last_failed_indices[k] \in 0..(Len(services_list) - 1))
    /\ [][[i \in 1..Len(services_list') |-> Identity(services_list'[i])]
              # [i \in 1..Len(services_list) |-> Identity(services_list[i])]
            => last_command' = NoneVal /\ last_failed_indices' = <<>>]_vars

\* 'on all' failed on the second of two devices, and a 'group 0 a' that would
\* exchange the two devices is about to be run.
C32_Witness ==
    /\ pc = "prompt"
    /\ last_failed_indices = <<1>>
    /\ Len(services_list) = 2
    /\ ENABLED (/\ CmdGroup(<<W_group, T_0, <<"a">>>>)
                /\ services_list'[2].host_ip = services_list[1].host_ip
                /\ last_failed_indices' = <<>>)

\* C33: every bulk command that was accepted and ran with at least one failure
\* can be retried, in every accepted spelling: at a prompt with a stored
\* command and failures, 'retry' reconstructs the command and starts its calls.
C33_RetryAlwaysReconstructs ==
    (pc = "prompt" /\ ~IsNone(last_command) /\ last_failed_indices # <<>>)
        => ENABLED (CmdRetry(<<W_retry>>) /\ pc' = "call")

\* C34: a non-empty stored failure set implies a stored command, and the two
\* are only cleared together: whenever the loop waits for a command with an
\* empty failure set, no command is stored either.
C34_StoredTogether ==
    /\ last_failed_indices # <<>> => ~IsNone(last_command)
    /\ (pc = "prompt" /\ last_failed_indices = <<>>) => IsNone(last_command)

\* The cache fields a bulk command may write.
Owned(handler) ==
    IF handler \in {W_on, W_off, W_power} THEN {"power_state"}
    ELSE IF handler = W_sync THEN {"sync_enabled"}
    ELSE IF handler = W_syncgroups THEN {"sync_send", "sync_recv"}
    ELSE {}

\* The device with the given fields left out of the comparison.
Without(service, fields) ==
    [f \in DOMAIN service |-> IF f \in fields THEN NoneVal ELSE service[f]]

\* C35: a bulk command changes only the cache field its operation owns and
\* only on its targets: on/off and power write power_state, sync writes
\* sync_enabled, syncgroups writes sync_send and sync_recv, reboot, state and
\* info write nothing; no step of a bulk command changes a group, key, name or
\* position, or any field of another device.
C35_BulkFrame ==
    [][(pc \in {"call", "finished"} \/ pc' \in {"call", "finished"}) =>
          /\ Len(services_list') = Len(services_list)
          /\ \A i \in 1..Len(services_list) :
                IF pc = "call" /\ i = run.indices[run.pos] + 1
                THEN Without(services_list'[i], Owned(run.handler))
                         = Without(services_list[i], Owned(run.handler))
                ELSE services_list'[i] = services_list[i]]_vars

\* 'sync 1 ON' has written sync_enabled of device 1 and left the power states
\* that 'on all' and 'off 1' wrote, and device 0, as they were.
C35_Witness ==
    /\ pc = "finished"
    /\ run.handler = W_sync
    /\ Len(services_list) = 2
    /\ services_list[2].sync_enabled = Some(TRUE)
    /\ services_list[2].power_state = Some(FALSE)
    /\ services_list[1].power_state = Some(TRUE)
    /\ services_list[1].sync_enabled = NoneVal

\* C37: after a bulk command has left failures, with the user typing retry and
\* each failed device's call succeeding in the end, the stored failure set
\* becomes empty, and from then on the loop stays at the prompt and retry
\* makes no call.
C37_RetryConverges ==
    (pc = "prompt" /\ last_failed_indices # <<>>)
        ~> [](pc = "prompt" /\ last_failed_indices = <<>>)

====
